---- MODULE Spec2Model ----
(***************************************************************************)
(* Model of the AI proctoring service (ai-service/app).                    *)
(*                                                                         *)
(* Spec         : one BaseConsumer thread (run/_connect/_consume_loop/     *)
(*                _on_message/_close_connection), the thread that calls    *)
(*                stop(), and the broker it talks to.                      *)
(* LiveSpec     : Spec with fair scheduling of the two threads.            *)
(* SpecBehavior : BehaviorConsumer handling behavior events one by one.    *)
(* SpecFrame    : FrameConsumer handling frame messages one by one.        *)
(* SpecInbound  : Spec with the running consumer being one of the three    *)
(*                subclasses and its process_message handling the bodies.  *)
(* SpecPublisher: the consumer threads inside publish_result               *)
(*                (_publish_with_retry/_get_channel) and the broker.       *)
(* SpecPublishBody: the bodies publish_result builds from its arguments.   *)
(* SpecScore    : the three scoring functions of risk_aggregator.          *)
(* SpecAudio    : AudioConsumer handling audio chunks one by one.          *)
(* SpecStartup  : main.lifespan loading the models and starting threads.   *)
(* SpecWindowLock: threads inside BehaviorConsumer.process_message, step   *)
(*                by step around self._lock.                               *)
(* SpecHandlers : one of the three consumers, whichever, handling its      *)
(*                messages one by one.                                     *)
(* SpecFleet    : the three consumer threads of main.lifespan side by      *)
(*                side, each with its connection and its queue.            *)
(***************************************************************************)
EXTENDS Integers, Sequences, FiniteSets, TLC

(* ----------------------------- bounds --------------------------------- *)
\* connections the broker accepts in one run (later attempts are refused)
MaxConns == 2
\* messages initially waiting in the inbound queue
MaxMsgs == 2
\* deliveries the broker makes in one run (redeliveries included)
MaxDeliveries == 3

\* behavior events handled in one run
MaxEvents == 51
\* behavior events in one run that differ from the plain in-order event
MaxVaried == 1

\* publisher connections the broker accepts in one run
MaxPubConns == 2

\* process_message calls each calling thread makes in one run
MaxCalls == 2

\* messages initially waiting in each of the three inbound queues
MaxFleetMsgs == 1
\* connections the broker accepts from each consumer in one run
MaxFleetConns == 2

(* ------------------------- program constants -------------------------- *)
\* behavior_consumer.py:42  _WINDOW_SIZE
WINDOW_SIZE == 50
\* behavior_consumer.py:44  _WINDOW_SECS
WINDOW_SECS == 300
\* scores are fixed-point numbers with 4 decimals (risk_aggregator.py:250)
SCALE == 10000
\* base_consumer.py:23  _RECONNECT_DELAY
RECONNECT_DELAY == 5
\* base_consumer.py:25  _DEFAULT_PREFETCH
DEFAULT_PREFETCH == 1

\* None, for the handles self._connection / self._channel
None == 0

VARIABLES
    stopEvent,    \* self._stop_event
    connection,   \* self._connection : None or a connection id
    channel,      \* self._channel    : None or the id of the connection it is on
    pc,           \* position of the consumer thread inside run()
    curChan,      \* the channel start_consuming() is running on (None outside it)
    cur,          \* index in dlv of the delivery _on_message is handling (0: none)
    timer,        \* seconds left of time.sleep(_RECONNECT_DELAY)
    stopPc,       \* position of the thread that calls stop()
    conns,        \* broker connections created so far, by id
    queue,        \* ready messages of the inbound queue, head first
    dlv,          \* every delivery the broker made, in delivery order
    \* ---- BehaviorConsumer (SpecBehavior) ----
    events,       \* self._events : session id -> window of <<event_type, ts>>
    clock,        \* the senders' wall clock, in milliseconds
    varied,       \* events so far that were not the plain in-order event
    models,       \* the model registry (model_loader._models), set at startup
    bLast,        \* what the last process_message call did
    \* ---- FrameConsumer (SpecFrame) ----
    fLast,        \* what the last process_message call did
    \* ---- AudioConsumer ----
    aLast,        \* what the last process_message call did
    \* ---- result_publisher (SpecPublisher) ----
    local,        \* _local: per thread, the attributes connection and channel
    pconns,       \* publisher connections created so far, by id
    ppc,          \* per thread, its position inside publish_result
    pcall,        \* per thread, what its current (or last) publish_result did
    pubLog,       \* every basic_publish made: who, on which channel
    built,        \* the body the last publish_result call built, and from what
    \* ---- risk_aggregator (SpecScore) ----
    scored,       \* the scoring call in progress: its function, arguments, result
    \* ---- main.lifespan and model_loader (SpecStartup) ----
    boot,         \* startup: its position, the LoadedModels m being filled, the
                  \* global _models, the consumer threads started
    \* ---- BehaviorConsumer under several calling threads (SpecWindowLock) ----
    lock,         \* self._lock: "free", or the thread that holds it
    callers,      \* per calling thread, its position inside process_message
    \* ---- the three consumer threads side by side (SpecFleet) ----
    fleet,        \* per consumer its thread and handles, per queue its messages
    \* ---- SpecInbound ----
    consumer,     \* the subclass the consumer thread runs ("none": not modelled)
    \* ---- configuration ----
    settings      \* get_settings(): the two configurable risk thresholds

consumerVars == <<stopEvent, connection, channel, pc, curChan, cur, timer, stopPc,
                  conns, queue, dlv>>

behaviorVars == <<events, clock, varied, models, bLast>>

frameVars == <<fLast>>

audioVars == <<aLast>>

pubVars == <<local, pconns, ppc, pcall, pubLog, built>>

scoreVars == <<scored>>

bootVars == <<boot>>

lockVars == <<lock, callers>>

fleetVars == <<fleet>>

\* the state outside the consumer framework
appVars == <<behaviorVars, frameVars, audioVars, pubVars, scoreVars, bootVars, lockVars, fleetVars, consumer, settings>>

vars == <<consumerVars, behaviorVars, frameVars, audioVars, pubVars, scoreVars,
          bootVars, lockVars, fleetVars, consumer, settings>>

\* the state outside result_publisher
inboundVars == <<consumerVars, behaviorVars, frameVars, audioVars, scoreVars, bootVars, lockVars, fleetVars, consumer,
                 settings>>

(* ------------------------------ helpers ------------------------------- *)

IsOpen(c) == c # None /\ conns[c].open

ChanOpen(c) == c # None /\ conns[c].open /\ conns[c].chanOpen

OpenConns == {c \in DOMAIN conns : conns[c].open}

Unacked(c) == {i \in DOMAIN dlv : dlv[i].conn = c /\ dlv[i].broker = "unacked"}

Buffered(c) == {i \in DOMAIN dlv : dlv[i].conn = c /\ dlv[i].state = "buffered"}

Min(S) == CHOOSE x \in S : \A y \in S : x <= y

\* A new connection as pika.BlockingConnection(params) returns it: open, no
\* channel yet, nothing declared, no qos, no consumer.
NewConn == [open |-> TRUE, chanOpen |-> FALSE, declared |-> "none",
            passive |-> TRUE, prefetch |-> 0, subscribed |-> FALSE,
            everSubscribed |-> FALSE]

\* The broker's view of a closed connection: its channel and consumer are gone.
ClosedConns(c) ==
    [conns EXCEPT ![c].open = FALSE, ![c].chanOpen = FALSE, ![c].subscribed = FALSE]

\* Deliveries of a closed connection: the unacked ones are requeued by the
\* broker, the ones still buffered in the client are never dispatched.
ClosedDlv(c) ==
    [i \in DOMAIN dlv |->
        IF dlv[i].conn = c
        THEN [dlv[i] EXCEPT !.broker = IF @ = "unacked" THEN "requeued" ELSE @,
                            !.state  = IF @ = "buffered" THEN "dropped" ELSE @]
        ELSE dlv[i]]

Requeued(c) ==
    LET s == SelectSeq(dlv, LAMBDA d : d.conn = c /\ d.broker = "unacked")
    IN  [k \in 1..Len(s) |-> s[k].msg]

\* self._connection.close() as the broker and the model see it
CloseEffect(c) ==
    /\ conns' = ClosedConns(c)
    /\ dlv'   = ClosedDlv(c)
    /\ queue' = Requeued(c) \o queue

(* ------------------------- _close_connection -------------------------- *)

\* base_consumer.py:126-130: close the connection the handle names, if open;
\* any exception is swallowed.
CloseConnectionTry ==
    IF IsOpen(connection)
    THEN CloseEffect(connection)
    ELSE UNCHANGED <<conns, dlv, queue>>

\* base_consumer.py:131-132
CloseConnectionClear ==
    /\ connection' = None
    /\ channel'    = None


(* ======================== risk_aggregator.py ========================== *)

MinOf(a, b) == IF a <= b THEN a ELSE b

MaxOf(a, b) == IF a >= b THEN a ELSE b

\* round(x, 3) of a 4-decimal fixed-point number
Round3(x) == ((x + 5) \div 10) * 10

\* round(x, 4) of a 6-decimal fixed-point number, as a 4-decimal one
Round4(x) == (x + 50) \div 100

\* faulty variant of DefaultSettings: HIGH from 0.70 on
DefaultSettingsHigh070 ==
    [high_risk_threshold |-> (70 * SCALE) \div 100,
     critical_threshold  |-> (90 * SCALE) \div 100]

\* config.py:67-68  high_risk_threshold = 0.75, critical_threshold = 0.90
DefaultSettings ==
    [high_risk_threshold |-> (75 * SCALE) \div 100,
     critical_threshold  |-> (90 * SCALE) \div 100]

\* faulty variant of SeverityOn: no LOW tier
SeverityFromMedium(x, k) ==
    IF x >= settings.critical_threshold * k THEN "CRITICAL"
    ELSE IF x >= settings.high_risk_threshold * k THEN "HIGH"
    ELSE IF x >= ((40 * SCALE) \div 100) * k THEN "MEDIUM"
    ELSE "NONE"

\* risk_aggregator.py:96-105 on a fixed-point score x whose 1.0 is SCALE * k
SeverityOn(x, k) ==
    IF x >= settings.critical_threshold * k THEN "CRITICAL"
    ELSE IF x >= settings.high_risk_threshold * k THEN "HIGH"
    ELSE IF x >= ((40 * SCALE) \div 100) * k THEN "MEDIUM"
    ELSE IF x > 0 THEN "LOW"
    ELSE "NONE"

\* _severity of a 4-decimal score
Severity(score) == SeverityOn(score, 1)

\* faulty variant of ObjectRisk: the risks of the detected objects add up
ObjectRiskSum(v) ==
    (IF v.phone_detected THEN MaxOf(v.phone_confidence, (75 * SCALE) \div 100) ELSE 0)
    + (IF v.notes_detected THEN MaxOf(v.notes_confidence, (65 * SCALE) \div 100) ELSE 0)
    + (IF v.extra_person THEN (85 * SCALE) \div 100 ELSE 0)

\* risk_aggregator.py:152-177: object_risk, raised by each detected object
\* in turn to at least that object's risk
ObjectRisk(v) ==
    LET o1 == IF v.phone_detected
              THEN MaxOf(0, MaxOf(v.phone_confidence, (75 * SCALE) \div 100)) ELSE 0
        o2 == IF v.notes_detected
              THEN MaxOf(o1, MaxOf(v.notes_confidence, (65 * SCALE) \div 100)) ELSE o1
    IN  IF v.extra_person THEN MaxOf(o2, (85 * SCALE) \div 100) ELSE o2

\* risk_aggregator.py:110-201.  v: the VisionResult, confidences fixed-point.
\* The weighted sum is kept with 6 decimals (weights are hundredths); the
\* severity is taken from the unrounded sum, risk_score is it rounded to 4.
ScoreFrame(v) ==
    LET face_missing   == ~v.face_present \/ v.face_count = 0
        multiple_faces == v.face_count >= 2
        face_risk  == IF face_missing THEN SCALE
                      ELSE IF multiple_faces THEN (80 * SCALE) \div 100 ELSE 0
        gaze_risk  == IF v.gaze_off_screen THEN SCALE ELSE 0
        object_risk == ObjectRisk(v)
        mouth_risk == IF v.mouth_open THEN (10 * SCALE) \div 100 ELSE 0
        final_score == MinOf(SCALE * 100,
                             face_risk * 30 + gaze_risk * 20 + 0 * 20
                             + object_risk * 20 + mouth_risk * 10)
        violations ==
            (IF face_missing
             THEN << [event_type |-> "FACE_NOT_DETECTED", severity |-> "HIGH",
                      confidence |-> (95 * SCALE) \div 100] >>
             ELSE IF multiple_faces
             THEN << [event_type |-> "MULTIPLE_FACES", severity |-> "HIGH",
                      confidence |-> (85 * SCALE) \div 100] >>
             ELSE << >>)
            \o (IF v.gaze_off_screen
                THEN << [event_type |-> "GAZE_AWAY", severity |-> "MEDIUM",
                         confidence |-> (80 * SCALE) \div 100] >>
                ELSE << >>)
            \o (IF v.phone_detected
                THEN << [event_type |-> "PHONE_DETECTED", severity |-> "HIGH",
                         confidence |-> Round3(v.phone_confidence)] >>
                ELSE << >>)
            \o (IF v.notes_detected
                THEN << [event_type |-> "NOTES_DETECTED", severity |-> "MEDIUM",
                         confidence |-> Round3(v.notes_confidence)] >>
                ELSE << >>)
            \o (IF v.extra_person
                THEN << [event_type |-> "MULTIPLE_PERSONS", severity |-> "HIGH",
                         confidence |-> (85 * SCALE) \div 100] >>
                ELSE << >>)
    IN  [risk_score |-> Round4(final_score),
         severity   |-> SeverityOn(final_score, 100),
         violations |-> SelectSeq(violations,
                            LAMBDA x : x.severity \in {"MEDIUM", "HIGH", "CRITICAL"})]

\* round(x, 3) of a 6-decimal fixed-point number, as a 4-decimal one
Round3Of6(x) == ((x + 500) \div 1000) * 10

\* the features of FeatureInputs as a tuple
FeatureKey(f) ==
    <<f.tab_switches, f.copy_paste_count, f.context_menu_count,
      f.fullscreen_exits, f.focus_loss_count, f.event_rate_per_min>>

\* risk_aggregator.py:281-287 adds its six terms as binary doubles, left to
\* right.  For these feature vectors the decimal value of the sum is one of
\* the thresholds a score is compared with (0.30, 0.40, 0.50, 0.90) and the
\* double is the one just below it:
\*   0.29999999999999993, 0.39999999999999997, 0.49999999999999994,
\*   0.8999999999999999.
\* For every other vector of FeatureInputs, and for every vector that
\* ComputeFeatures returns on a window of up to WINDOW_SIZE events with at
\* most three events that are not tab switches, the double compares with
\* each threshold as the decimal sum does.
FloatBelowDecimal ==
    {<<0, 0, 0, 4, 4, 20000>>,  <<0, 0, 3, 4, 1, 20000>>,  <<0, 0, 5, 0, 4, 20000>>,
     <<0, 1, 3, 1, 1, 20000>>,  <<0, 1, 5, 1, 4, 20000>>,  <<0, 10, 0, 1, 4, 20000>>,
     <<0, 10, 3, 1, 1, 20000>>, <<0, 10, 5, 1, 8, 120000>>, <<1, 1, 0, 1, 8, 20000>>,
     <<1, 1, 5, 1, 0, 20000>>,  <<1, 1, 5, 1, 1, 0>>,      <<1, 10, 0, 1, 0, 20000>>,
     <<1, 10, 0, 1, 1, 0>>,     <<15, 1, 0, 1, 8, 120000>>}

\* faulty variant of RuleSum: the sum without its cap at 1.0
RuleSumUncapped(f) ==
      MinOf(40 * SCALE, f.tab_switches * (6 * SCALE))
    + MinOf(25 * SCALE, f.copy_paste_count * (5 * SCALE))
    + MinOf(20 * SCALE, f.context_menu_count * (4 * SCALE))
    + MinOf(20 * SCALE, f.fullscreen_exits * (5 * SCALE))
    + MinOf(20 * SCALE, f.focus_loss_count * (4 * SCALE))
    + MinOf(20 * SCALE, f.event_rate_per_min * 2)

\* risk_aggregator.py:280-287: the decimal value of the rule-based sum, with
\* 6 decimals.  Counters are integers; event_rate_per_min has 4 decimals.
RuleSum(f) ==
    MinOf(SCALE * 100,
          MinOf(40 * SCALE, f.tab_switches * (6 * SCALE))
        + MinOf(25 * SCALE, f.copy_paste_count * (5 * SCALE))
        + MinOf(20 * SCALE, f.context_menu_count * (4 * SCALE))
        + MinOf(20 * SCALE, f.fullscreen_exits * (5 * SCALE))
        + MinOf(20 * SCALE, f.focus_loss_count * (4 * SCALE))
        + MinOf(20 * SCALE, f.event_rate_per_min * 2))

\* risk_aggregator.py:279-287: the rule-based fallback as the double it
\* returns, with 6 decimals: the decimal sum, or the number just below it
RuleBehaviourRisk(f) ==
    IF FeatureKey(f) \in FloatBelowDecimal THEN RuleSum(f) - 1 ELSE RuleSum(f)

\* The classifier is an external artifact.  clf says what predict_proba does
\* when it is called: it raises, or answers P(suspicious) with 6 decimals:
\* a given one, or the one of a classifier trained on tab switches.
PredictProba(clf, f) ==
    IF clf.kind = "trained" THEN MinOf(SCALE * 100, f.tab_switches * (SCALE * 10))
    ELSE clf.proba

\* risk_aggregator.py:263: the classifier is asked only when the registry
\* has it
ClassifierCalled(reg) == reg.xgboost_loaded /\ reg.xgboost # "null"

\* faulty variant of InferenceFailed: the error counts as no risk
InferenceFailedAsZero(f) == 0

\* risk_aggregator.py:276-287: predict_proba raised; the error is logged and
\* the function falls through to the rule-based sum
InferenceFailed(f) == RuleBehaviourRisk(f)

\* risk_aggregator.py:256-287, the risk with 6 decimals
ComputeBehaviourRisk(f, reg, clf) ==
    IF ClassifierCalled(reg)
    THEN IF clf.kind # "raises"
         THEN MinOf(SCALE * 100, MaxOf(0, PredictProba(clf, f)))
         ELSE InferenceFailed(f)
    ELSE RuleBehaviourRisk(f)

\* risk_aggregator.py:230-253.  The violation test and both severities use
\* the risk as computed; risk_score is it rounded to 4 decimals.
ScoreBehaviour(f, reg, clf) ==
    LET risk == ComputeBehaviourRisk(f, reg, clf)
    IN  [risk_score |-> Round4(risk),
         severity   |-> SeverityOn(risk, 100),
         violations |-> IF risk >= 30 * SCALE
                        THEN << [event_type |-> "SUSPICIOUS_BEHAVIOR",
                                 severity   |-> SeverityOn(risk, 100),
                                 confidence |-> Round3Of6(risk)] >>
                        ELSE << >>]

\* faulty variant of AudioViolationSeverity: the tiers of the audio consumer
AudioViolationSeverityOver070(speech_ratio) ==
    IF speech_ratio > (70 * SCALE) \div 100 THEN "HIGH" ELSE "MEDIUM"

\* risk_aggregator.py:209  sev
AudioViolationSeverity(speech_ratio) ==
    IF speech_ratio > (50 * SCALE) \div 100 THEN "HIGH" ELSE "MEDIUM"

\* risk_aggregator.py:204-227.  a: the AudioResult, speech_ratio with 4
\* decimals, of which round(., 4) keeps every digit.  The severity of the
\* result is taken from the rounded score.
ScoreAudio(a) ==
    IF ~a.speech_detected
    THEN [risk_score |-> 0, severity |-> "NONE", violations |-> << >>]
    ELSE LET risk_score == MinOf(SCALE, a.speech_ratio)
         IN  [risk_score |-> risk_score,
              severity   |-> Severity(risk_score),
              violations |->
                 << [event_type |-> "SUSPICIOUS_AUDIO",
                     severity   |-> AudioViolationSeverity(a.speech_ratio),
                     confidence |-> Round3(a.speech_ratio)] >>]

(* ======================= result_publisher.py ========================== *)

\* confidence=None
NullConfidence == [none |-> TRUE, val |-> 0]

\* faulty variant of Clamp01: the score is passed through
NoClamp(x) == x

\* min(1.0, max(0.0, x)) (result_publisher.py:92) on a 4-decimal number
Clamp01(x) == MinOf(SCALE, MaxOf(0, x))

\* result_publisher.py:85-94: the outbound record publish_result builds
\* (description and metadata left out).  confidence is NullConfidence or
\* [none |-> FALSE, val |-> c]; c and risk_score are the caller's numbers
\* with 6 decimals, the record's numbers have 4.
PublishResultBody(session_id, event_type, severity, confidence, snapshot_path, risk_score) ==
    [sessionId    |-> session_id,
     eventType    |-> event_type,
     severity     |-> severity,
     confidence   |-> IF confidence.none THEN NullConfidence
                      ELSE [none |-> FALSE, val |-> Round4(confidence.val)],
     snapshotPath |-> snapshot_path,
     riskScore    |-> Clamp01(Round4(risk_score))]

\* publish_result as the consumers call it: one violation v of a RiskResult
\* (4-decimal numbers) with the snapshot path and the aggregate risk score
PublishBody(session_id, v, snapshot_path, risk_score) ==
    PublishResultBody(session_id, v.event_type, v.severity,
                      [none |-> FALSE, val |-> v.confidence * 100],
                      snapshot_path, risk_score * 100)

\* the confidence and risk_score values a caller can pass, with 6 decimals
ConfidenceArgs ==
    {NullConfidence}
    \cup [none : {FALSE},
          val : {0, 333349, 333351, 877000, 999949, 999951, 100 * SCALE}]

RiskScoreArgs ==
    {-150 * SCALE, -51, -49, 0, 49, 51, 123449, 123451, 999949, 999951,
     100 * SCALE, 100 * SCALE + 49, 100 * SCALE + 51, 250 * SCALE}

PublishResultArgs ==
    [session_id : {"s1"}, event_type : {"PHONE_DETECTED"},
     severity : {"HIGH"}, confidence : ConfidenceArgs,
     snapshot_path : {"null", "key"}, risk_score : RiskScoreArgs]

NothingBuilt ==
    [made |-> FALSE,
     args |-> [session_id |-> "s1", event_type |-> "PHONE_DETECTED",
               severity |-> "HIGH", confidence |-> NullConfidence,
               snapshot_path |-> "null", risk_score |-> 0],
     body |-> PublishResultBody("s1", "PHONE_DETECTED", "HIGH", NullConfidence,
                                "null", 0)]

\* one publish_result call builds its body (result_publisher.py:85-94)
BuildBody ==
    /\ \E a \in PublishResultArgs :
          built' = [made |-> TRUE, args |-> a,
                    body |-> PublishResultBody(a.session_id, a.event_type,
                                a.severity, a.confidence, a.snapshot_path,
                                a.risk_score)]
    /\ UNCHANGED <<local, pconns, ppc, pcall, pubLog>>
    /\ UNCHANGED inboundVars

(* ----------------- _publish_with_retry / _get_channel ----------------- *)

\* two of the consumer threads that call publish_result
\* (frame_consumer.py:118, behavior_consumer.py:84; audio_consumer.py:59 is
\* a third caller of the same kind)
PubThreads == {"frame", "behavior"}

\* faulty variant of LocalKey: one module-level slot shared by all threads
SharedKey(t) == "shared"

\* _local = threading.local() (result_publisher.py:36): the slot of _local
\* that thread t reads and writes
LocalKey(t) == t

LocalKeys == {LocalKey(t) : t \in PubThreads}

\* getattr(_local, "connection", None) of a thread that set nothing yet
NoHandles == [connection |-> None, channel |-> None]

NoCall ==
    [attempt |-> 0, ch |-> None, publishes |-> 0, successes |-> 0,
     opened |-> << >>, outcome |-> "none"]

PubIsOpen(c) == c # None /\ pconns[c].open

\* publish_result (result_publisher.py:71-96) and the head of
\* _publish_with_retry (99-101): the body is built and serialized, the first
\* attempt starts.  Callers pass str, float, int, bool and None only, which
\* json.dumps accepts.
PublishResult(t) ==
    /\ ppc[t] = "idle"
    /\ ppc' = [ppc EXCEPT ![t] = "get"]
    /\ pcall' = [pcall EXCEPT ![t] = [NoCall EXCEPT !.attempt = 1]]
    /\ UNCHANGED <<local, pconns, pubLog, built>>
    /\ UNCHANGED inboundVars

\* _get_channel, lines 45-46 and 68: the handle is kept when its connection
\* is not closed, and then _local.channel is returned as it is
GetChannel(t) ==
    /\ ppc[t] = "get"
    /\ LET conn == local[LocalKey(t)].connection
       IN  IF conn = None \/ ~pconns[conn].open
           THEN /\ ppc' = [ppc EXCEPT ![t] = "open"]
                /\ pcall' = pcall
           ELSE /\ ppc' = [ppc EXCEPT ![t] = "publish"]
                /\ pcall' = [pcall EXCEPT ![t].ch = local[LocalKey(t)].channel]
    /\ UNCHANGED <<local, pconns, pubLog, built>>
    /\ UNCHANGED inboundVars

\* line 58: pika.BlockingConnection(params); the broker accepts or refuses
OpenConnection(t) ==
    /\ ppc[t] = "open"
    /\ \/ /\ Len(pconns) < MaxPubConns
          /\ pconns' = Append(pconns, [open |-> TRUE, chan |-> "none",
                                       declared |-> FALSE, opener |-> t])
          /\ local' = [local EXCEPT ![LocalKey(t)].connection = Len(pconns) + 1]
          /\ pcall' = [pcall EXCEPT ![t].opened =
                             Append(@, [attempt |-> pcall[t].attempt,
                                        conn |-> Len(pconns) + 1])]
          /\ ppc' = [ppc EXCEPT ![t] = "channel"]
       \/ /\ ppc' = [ppc EXCEPT ![t] = "except"]
          /\ UNCHANGED <<local, pconns, pcall>>
    /\ UNCHANGED <<pubLog, built>>
    /\ UNCHANGED inboundVars

\* line 59: _local.connection.channel(); raises when the connection is gone
OpenChannel(t) ==
    /\ ppc[t] = "channel"
    /\ LET c == local[LocalKey(t)].connection
       IN  IF PubIsOpen(c)
           THEN /\ pconns' = [pconns EXCEPT ![c].chan = "open", ![c].declared = FALSE]
                /\ local' = [local EXCEPT ![LocalKey(t)].channel = c]
                /\ ppc' = [ppc EXCEPT ![t] = "declare"]
           ELSE /\ ppc' = [ppc EXCEPT ![t] = "except"]
                /\ UNCHANGED <<local, pconns>>
    /\ UNCHANGED <<pcall, pubLog, built>>
    /\ UNCHANGED inboundVars

\* faulty variant of ExchangeDeclare: the channel is handed out undeclared
ExchangeDeclareSkipped(t) ==
    /\ ppc[t] = "declare"
    /\ ppc' = [ppc EXCEPT ![t] = "publish"]
    /\ pcall' = [pcall EXCEPT ![t].ch = local[LocalKey(t)].channel]
    /\ UNCHANGED <<local, pconns, pubLog, built>>
    /\ UNCHANGED inboundVars

\* lines 61-68: exchange_declare(topic, durable) on the new channel, which
\* is then returned; raises when the channel or its connection is gone
ExchangeDeclare(t) ==
    /\ ppc[t] = "declare"
    /\ LET ch == local[LocalKey(t)].channel
       IN  IF PubIsOpen(ch) /\ pconns[ch].chan = "open"
           THEN /\ pconns' = [pconns EXCEPT ![ch].declared = TRUE]
                /\ pcall' = [pcall EXCEPT ![t].ch = ch]
                /\ ppc' = [ppc EXCEPT ![t] = "publish"]
           ELSE /\ ppc' = [ppc EXCEPT ![t] = "except"]
                /\ UNCHANGED <<pconns, pcall>>
    /\ UNCHANGED <<local, pubLog, built>>
    /\ UNCHANGED inboundVars

\* lines 104-119: channel.basic_publish on the channel _get_channel returned;
\* it returns (and so does publish_result) or raises when the channel or its
\* connection is gone
BasicPublish(t) ==
    /\ ppc[t] = "publish"
    /\ LET ch == pcall[t].ch
           ok == PubIsOpen(ch) /\ pconns[ch].chan = "open"
       IN  /\ pubLog' = pubLog \cup
                 {[thread |-> t, chan |-> ch, ok |-> ok,
                   declared |-> IF ch = None THEN FALSE ELSE pconns[ch].declared,
                   opener |-> IF ch = None THEN "none" ELSE pconns[ch].opener]}
           /\ pcall' = [pcall EXCEPT
                           ![t].publishes = @ + 1,
                           ![t].successes = IF ok THEN @ + 1 ELSE @,
                           ![t].outcome = IF ok THEN "published" ELSE @]
           /\ ppc' = [ppc EXCEPT ![t] = IF ok THEN "idle" ELSE "except"]
    /\ UNCHANGED <<local, pconns, built>>
    /\ UNCHANGED inboundVars

\* faulty variant of DropHandle: the handle is kept after a failure
KeepHandle(h) == h

\* line 123: _local.connection = None (the connection is not closed and
\* _local.channel is left as it is)
DropHandle(h) == [h EXCEPT !.connection = None]

\* lines 120-129 and the loop head 101: any exception of the attempt is
\* caught, the handle dropped; a second attempt follows the first, the
\* message is dropped after the second and publish_result returns
Except(t) ==
    /\ ppc[t] = "except"
    /\ local' = [local EXCEPT ![LocalKey(t)] = DropHandle(@)]
    /\ IF pcall[t].attempt < 2
       THEN /\ pcall' = [pcall EXCEPT ![t].attempt = @ + 1]
            /\ ppc' = [ppc EXCEPT ![t] = "get"]
       ELSE /\ pcall' = [pcall EXCEPT ![t].outcome = "dropped"]
            /\ ppc' = [ppc EXCEPT ![t] = "idle"]
    /\ UNCHANGED <<pconns, pubLog, built>>
    /\ UNCHANGED inboundVars

\* The broker closes a publisher channel (a channel-level error); the
\* connection stays open.
PubChannelClosed ==
    \E c \in DOMAIN pconns :
        /\ pconns[c].open /\ pconns[c].chan = "open"
        /\ pconns' = [pconns EXCEPT ![c].chan = "closed"]
        /\ UNCHANGED <<local, ppc, pcall, pubLog, built>>
    /\ UNCHANGED inboundVars

\* A publisher connection is lost.
PubConnectionLost ==
    \E c \in DOMAIN pconns :
        /\ pconns[c].open
        /\ pconns' = [pconns EXCEPT ![c].open = FALSE,
                                    ![c].chan = IF @ = "none" THEN "none" ELSE "closed"]
        /\ UNCHANGED <<local, ppc, pcall, pubLog, built>>
    /\ UNCHANGED inboundVars

\* no thread has published yet: _local has no attribute in any thread
PublisherInit ==
    /\ local  = [k \in LocalKeys |-> NoHandles]
    /\ pconns = << >>
    /\ ppc    = [t \in PubThreads |-> "idle"]
    /\ pcall  = [t \in PubThreads |-> NoCall]
    /\ pubLog = {}
    /\ built  = NothingBuilt

PublisherStep(t) ==
    \/ PublishResult(t)
    \/ GetChannel(t)
    \/ OpenConnection(t)
    \/ OpenChannel(t)
    \/ ExchangeDeclare(t)
    \/ BasicPublish(t)
    \/ Except(t)

PublisherNext ==
    \/ \E t \in PubThreads : PublisherStep(t)
    \/ PubChannelClosed
    \/ PubConnectionLost

(* ------------------------------ run() --------------------------------- *)

\* base_consumer.py:65  while not self._stop_event.is_set()
LoopCheck ==
    /\ pc = "check"
    /\ pc' = IF stopEvent THEN "done" ELSE "connect"
    /\ UNCHANGED <<stopEvent, connection, channel, curChan, cur, timer, stopPc,
                   conns, queue, dlv>>
    /\ UNCHANGED appVars

\* base_consumer.py:87-90  self._connection = pika.BlockingConnection(params)
ConnectOpen ==
    /\ pc = "connect"
    /\ \/ /\ Len(conns) < MaxConns
          /\ conns' = Append(conns, NewConn)
          /\ connection' = Len(conns) + 1
          /\ pc' = "open_channel"
       \/ \* broker unreachable: AMQPConnectionError
          /\ pc' = "close"
          /\ UNCHANGED <<conns, connection>>
    /\ UNCHANGED <<stopEvent, channel, curChan, cur, timer, stopPc, queue, dlv>>
    /\ UNCHANGED appVars

\* base_consumer.py:91  self._channel = self._connection.channel()
ConnectChannel ==
    /\ pc = "open_channel"
    /\ IF IsOpen(connection)
       THEN /\ conns' = [conns EXCEPT ![connection].chanOpen = TRUE]
            /\ channel' = connection
            /\ pc' = "queue_declare"
       ELSE \* handle cleared (AttributeError) or connection closed
            /\ pc' = "close"
            /\ UNCHANGED <<conns, channel>>
    /\ UNCHANGED <<stopEvent, connection, curChan, cur, timer, stopPc, queue, dlv>>
    /\ UNCHANGED appVars

\* faulty variant of QueueDeclarePassive: the queue is declared actively
\* (passive=False)
QueueDeclareActive == FALSE

\* base_consumer.py:97  passive=True
QueueDeclarePassive == TRUE

\* base_consumer.py:95-98  self._channel.queue_declare(queue=..., passive=True)
ConnectQueueDeclare ==
    /\ pc = "queue_declare"
    /\ IF ChanOpen(channel)
       THEN \/ \* the queue exists
               /\ conns' = [conns EXCEPT ![channel].declared = "ok",
                                         ![channel].passive = QueueDeclarePassive]
               /\ pc' = "basic_qos"
            \/ \* the queue does not exist: the broker closes the channel (404)
               /\ conns' = [conns EXCEPT ![channel].declared = "failed",
                                         ![channel].passive = QueueDeclarePassive,
                                         ![channel].chanOpen = FALSE]
               /\ pc' = "close"
       ELSE /\ pc' = "close"
            /\ UNCHANGED conns
    /\ UNCHANGED <<stopEvent, connection, channel, curChan, cur, timer, stopPc,
                   queue, dlv>>
    /\ UNCHANGED appVars

\* base_consumer.py:39-41  self._prefetch = prefetch (default _DEFAULT_PREFETCH)
prefetch == DEFAULT_PREFETCH

\* faulty variant of ConnectBasicQos: _connect subscribes without having set
\* the prefetch count
ConnectBasicQosSkipped ==
    /\ pc = "basic_qos"
    /\ pc' = IF ChanOpen(channel) THEN "basic_consume" ELSE "close"
    /\ UNCHANGED <<stopEvent, connection, channel, curChan, cur, timer, stopPc,
                   conns, queue, dlv>>
    /\ UNCHANGED appVars

\* base_consumer.py:99  self._channel.basic_qos(prefetch_count=self._prefetch)
ConnectBasicQos ==
    /\ pc = "basic_qos"
    /\ IF ChanOpen(channel)
       THEN /\ conns' = [conns EXCEPT ![channel].prefetch = prefetch]
            /\ pc' = "basic_consume"
       ELSE /\ pc' = "close"
            /\ UNCHANGED conns
    /\ UNCHANGED <<stopEvent, connection, channel, curChan, cur, timer, stopPc,
                   queue, dlv>>
    /\ UNCHANGED appVars

\* base_consumer.py:103-107  assert self._channel is not None; basic_consume
ConsumeLoopSubscribe ==
    /\ pc = "basic_consume"
    /\ IF ChanOpen(channel)
       THEN /\ conns' = [conns EXCEPT ![channel].subscribed = TRUE,
                                      ![channel].everSubscribed = TRUE]
            /\ pc' = "start_consuming"
       ELSE /\ pc' = "close"
            /\ UNCHANGED conns
    /\ UNCHANGED <<stopEvent, connection, channel, curChan, cur, timer, stopPc,
                   queue, dlv>>
    /\ UNCHANGED appVars

\* base_consumer.py:108  self._channel.start_consuming()
ConsumeLoopStart ==
    /\ pc = "start_consuming"
    /\ IF channel # None
       THEN /\ curChan' = channel
            /\ pc' = "consuming"
       ELSE /\ pc' = "close"
            /\ UNCHANGED curChan
    /\ UNCHANGED <<stopEvent, connection, channel, cur, timer, stopPc,
                   conns, queue, dlv>>
    /\ UNCHANGED appVars

(* --------------------------- _on_message ------------------------------ *)

\* faulty variant of OnMessage: the failed message is put back on the queue
\* (requeue=True)
OnMessageRequeue(raised, chOpen) ==
    IF ~raised
    THEN IF chOpen
         THEN [ackCall |-> TRUE, nackCall |-> FALSE, requeue |-> FALSE,
               broker |-> "acked", propagate |-> FALSE]
         ELSE [ackCall |-> TRUE, nackCall |-> TRUE, requeue |-> TRUE,
               broker |-> "same", propagate |-> TRUE]
    ELSE IF chOpen
         THEN [ackCall |-> FALSE, nackCall |-> TRUE, requeue |-> TRUE,
               broker |-> "nacked", propagate |-> FALSE]
         ELSE [ackCall |-> FALSE, nackCall |-> TRUE, requeue |-> TRUE,
               broker |-> "same", propagate |-> TRUE]

\* base_consumer.py:117-123.  raised: process_message raised; chOpen: the
\* channel is open when basic_ack / basic_nack is called (a call on a closed
\* channel raises).  ackCall / nackCall: the call was made; requeue: the flag
\* given to basic_nack; broker: what the broker records; propagate: an
\* exception leaves _on_message (basic_nack itself raised).
OnMessage(raised, chOpen) ==
    IF ~raised
    THEN IF chOpen
         THEN [ackCall |-> TRUE, nackCall |-> FALSE, requeue |-> FALSE,
               broker |-> "acked", propagate |-> FALSE]
         ELSE \* basic_ack raised inside the try: the except branch nacks
              [ackCall |-> TRUE, nackCall |-> TRUE, requeue |-> FALSE,
               broker |-> "same", propagate |-> TRUE]
    ELSE IF chOpen
         THEN [ackCall |-> FALSE, nackCall |-> TRUE, requeue |-> FALSE,
               broker |-> "nacked", propagate |-> FALSE]
         ELSE [ackCall |-> FALSE, nackCall |-> TRUE, requeue |-> FALSE,
               broker |-> "same", propagate |-> TRUE]

\* start_consuming() dispatches the oldest buffered delivery of its channel to
\* _on_message (base_consumer.py:106, 110-116): process_message starts.
Dispatch ==
    /\ pc = "consuming"
    /\ IsOpen(curChan)
    /\ Buffered(curChan) # {}
    /\ LET i == Min(Buffered(curChan))
       IN  /\ dlv' = [dlv EXCEPT ![i].state = "handling",
                                 ![i].afterStop = (stopPc = "returned")]
           /\ cur' = i
    /\ pc' = "handling"
    /\ UNCHANGED <<stopEvent, connection, channel, curChan, timer, stopPc,
                   conns, queue>>
    /\ UNCHANGED appVars

\* base_consumer.py:117-123 once process_message has ended (raised: with an
\* exception): basic_ack or basic_nack on the delivery's channel, and back
\* to start_consuming or out of it.
Settle(raised) ==
    /\ LET r == OnMessage(raised, ChanOpen(curChan))
           b == IF r.broker = "same" THEN dlv[cur].broker ELSE r.broker
       IN  /\ dlv' = [dlv EXCEPT ![cur].state = "done",
                                 ![cur].outcome = IF raised THEN "raise" ELSE "ret",
                                 ![cur].ack = r.ackCall,
                                 ![cur].nack = r.nackCall,
                                 ![cur].requeue = r.requeue,
                                 ![cur].broker = b,
                                 ![cur].settledAfterStop =
                                      (stopPc = "returned" /\ r.broker # "same")]
           /\ queue' = IF r.broker = "nacked" /\ r.requeue
                       THEN <<dlv[cur].msg>> \o queue ELSE queue
           /\ pc' = IF r.propagate THEN "close" ELSE "consuming"
    /\ cur' = 0
    /\ curChan' = IF pc' = "close" THEN None ELSE curChan
    /\ UNCHANGED <<stopEvent, connection, channel, timer, stopPc, conns>>

\* base_consumer.py:117-123: process_message ends (returns or raises), then
\* basic_ack or basic_nack on the delivery's channel.
OnMessageSettle ==
    /\ pc = "handling"
    /\ \E raised \in BOOLEAN : Settle(raised)
    /\ UNCHANGED appVars

\* start_consuming() returns normally: the broker cancelled the consumer
\* (or the connection was closed under it and pika cleaned the channel up);
\* run() iterates.
ConsumeLoopReturn ==
    /\ pc = "consuming"
    /\ ~conns[curChan].subscribed
    /\ Buffered(curChan) = {}
    /\ pc' = "check"
    /\ curChan' = None
    /\ UNCHANGED <<stopEvent, connection, channel, cur, timer, stopPc,
                   conns, queue, dlv>>
    /\ UNCHANGED appVars

\* start_consuming() raises: the connection was closed under it
\* (connection lost, or closed by stop() from the other thread).
ConsumeLoopRaise ==
    /\ pc = "consuming"
    /\ ~IsOpen(curChan)
    /\ pc' = "close"
    /\ curChan' = None
    /\ UNCHANGED <<stopEvent, connection, channel, cur, timer, stopPc,
                   conns, queue, dlv>>
    /\ UNCHANGED appVars

(* ---------------- run(): the two except branches ---------------------- *)

\* base_consumer.py:72 / 77  self._close_connection(), lines 126-130
ExceptClose ==
    /\ pc = "close"
    /\ CloseConnectionTry
    /\ pc' = "clear"
    /\ UNCHANGED <<stopEvent, connection, channel, curChan, cur, timer, stopPc>>
    /\ UNCHANGED appVars

\* faulty variant of ExceptClear: the except branch reconnects at once,
\* without the delay
ExceptClearNoSleep ==
    /\ pc = "clear"
    /\ CloseConnectionClear
    /\ pc' = "check"
    /\ UNCHANGED <<stopEvent, curChan, cur, timer, stopPc, conns, queue, dlv>>
    /\ UNCHANGED appVars

\* base_consumer.py:131-132, then time.sleep(_RECONNECT_DELAY) begins
ExceptClear ==
    /\ pc = "clear"
    /\ CloseConnectionClear
    /\ pc' = "sleep"
    /\ timer' = RECONNECT_DELAY
    /\ UNCHANGED <<stopEvent, curChan, cur, stopPc, conns, queue, dlv>>
    /\ UNCHANGED appVars

\* one second of time.sleep(_RECONNECT_DELAY) passes
SleepTick ==
    /\ pc = "sleep"
    /\ timer > 0
    /\ timer' = timer - 1
    /\ UNCHANGED <<stopEvent, connection, channel, pc, curChan, cur, stopPc,
                   conns, queue, dlv>>
    /\ UNCHANGED appVars

\* base_consumer.py:73 / 78  time.sleep returns; back to the loop test
SleepDone ==
    /\ pc = "sleep"
    /\ timer = 0
    /\ pc' = "check"
    /\ UNCHANGED <<stopEvent, connection, channel, curChan, cur, timer, stopPc,
                   conns, queue, dlv>>
    /\ UNCHANGED appVars

(* ------------------------------ stop() -------------------------------- *)

\* base_consumer.py:81  self._stop_event.set()   (main.py:57-58)
StopSet ==
    /\ stopPc = "idle"
    /\ stopEvent' = TRUE
    /\ stopPc' = "close"
    /\ UNCHANGED <<connection, channel, pc, curChan, cur, timer, conns, queue, dlv>>
    /\ UNCHANGED appVars

\* base_consumer.py:82  self._close_connection(), lines 126-130
StopClose ==
    /\ stopPc = "close"
    /\ CloseConnectionTry
    /\ stopPc' = "clear"
    /\ UNCHANGED <<stopEvent, connection, channel, pc, curChan, cur, timer>>
    /\ UNCHANGED appVars

\* base_consumer.py:131-132; stop() returns
StopClear ==
    /\ stopPc = "clear"
    /\ CloseConnectionClear
    /\ stopPc' = "returned"
    /\ UNCHANGED <<stopEvent, pc, curChan, cur, timer, conns, queue, dlv>>
    /\ UNCHANGED appVars

(* ------------------------------ broker -------------------------------- *)

\* The broker pushes the head of the queue to a subscribed consumer, as far
\* as the channel's prefetch count allows (0: no limit).
Deliver ==
    \E c \in DOMAIN conns :
        /\ conns[c].open /\ conns[c].subscribed
        /\ queue # <<>>
        /\ Len(dlv) < MaxDeliveries
        /\ conns[c].prefetch = 0 \/ Cardinality(Unacked(c)) < conns[c].prefetch
        /\ dlv' = Append(dlv, [msg |-> Head(queue), conn |-> c, state |-> "buffered",
                               broker |-> "unacked", outcome |-> "none",
                               ack |-> FALSE, nack |-> FALSE, requeue |-> FALSE,
                               afterStop |-> FALSE, settledAfterStop |-> FALSE])
        /\ queue' = Tail(queue)
        /\ UNCHANGED <<stopEvent, connection, channel, pc, curChan, cur, timer,
                       stopPc, conns>>
    /\ UNCHANGED appVars

\* The broker cancels the consumer (e.g. the queue is deleted): a
\* consumer-cancel notification; the connection stays open.
BrokerCancel ==
    \E c \in DOMAIN conns :
        /\ conns[c].open /\ conns[c].subscribed
        /\ conns' = [conns EXCEPT ![c].subscribed = FALSE]
        /\ UNCHANGED <<stopEvent, connection, channel, pc, curChan, cur, timer,
                       stopPc, queue, dlv>>
    /\ UNCHANGED appVars

\* The connection is lost (network failure, broker restart).
ConnectionLost ==
    \E c \in DOMAIN conns :
        /\ conns[c].open
        /\ CloseEffect(c)
        /\ UNCHANGED <<stopEvent, connection, channel, pc, curChan, cur, timer,
                       stopPc>>
    /\ UNCHANGED appVars

(* ---------------------------- json.loads ------------------------------ *)

\* faulty variant of JsonLoads: a parser that accepts every body
JsonLoadsLenient(msg) == TRUE

\* json.loads(body), the first statement of every process_message
\* (behavior_consumer.py:61, frame_consumer.py:49, audio_consumer.py:38):
\* TRUE when it returns, FALSE when it raises (the body is not valid JSON)
JsonLoads(msg) == msg.kind # "badjson"

(* ======================= behavior_consumer.py ========================= *)

Sessions == {"s1", "s2"}

RecognizedLabels ==
    {"TAB_SWITCH", "COPY_PASTE", "CONTEXT_MENU", "FULLSCREEN_EXIT", "FOCUS_LOSS"}

\* the labels the senders use in a run: two recognized ones, one unknown
EventLabels == {"TAB_SWITCH", "COPY_PASTE", "MOUSE_LEAVE"}

\* one event every 10 s of the senders' clock; a late event carries a
\* timestamp 400 s in the past, an early one 400 s in the future
ClockStep == 10 * 1000

Skew == 400 * 1000

ClockStart == 1000 * 1000

\* faulty variant of DequeAppend: a plain list, no maxlen
ListAppend(h, e) == Append(h, e)

\* faulty variant of PopLeft: the newest entry is discarded
PopRight(h) == SubSeq(h, 1, Len(h) - 1)

\* a full deque(maxlen=...) discards one item from the end opposite to the
\* append: the oldest one (behavior_consumer.py:53)
PopLeft(h) == Tail(h)

\* deque(maxlen=_WINDOW_SIZE).append (behavior_consumer.py:53, 73)
DequeAppend(h, e) ==
    IF Len(h) >= WINDOW_SIZE THEN Append(PopLeft(h), e) ELSE Append(h, e)

\* counts[label] over the positions `recent` of the window
\* (behavior_consumer.py:133-135)
CountLabel(history, recent, label) ==
    Cardinality({k \in recent : history[k].et = label})

\* behavior_consumer.py:128-146.  Timestamps are kept in milliseconds
\* (now_sec * 1000), so the cutoff is now - 300 s exactly; recent: the
\* positions of the window's entries that pass ts >= cutoff.
ComputeFeatures(history, now) ==
    LET cutoff == now - WINDOW_SECS * 1000
        recent == {k \in DOMAIN history : history[k].ts >= cutoff}
    IN  [tab_switches       |-> CountLabel(history, recent, "TAB_SWITCH"),
         copy_paste_count   |-> CountLabel(history, recent, "COPY_PASTE"),
         context_menu_count |-> CountLabel(history, recent, "CONTEXT_MENU"),
         fullscreen_exits   |-> CountLabel(history, recent, "FULLSCREEN_EXIT"),
         focus_loss_count   |-> CountLabel(history, recent, "FOCUS_LOSS"),
         event_rate_per_min |-> (Cardinality(recent) * SCALE * 60) \div WINDOW_SECS]

\* the sessions that have an entry in self._events
Tracked == {sid \in Sessions : events[sid].present}

\* faulty variant of WindowKey: one window for all sessions
SingleWindowKey(session_id) == "s1"

\* the key under which self._events holds the window of a message: its
\* sessionId (behavior_consumer.py:62, 72)
WindowKey(session_id) == session_id

\* self._events[session_id] of the defaultdict (behavior_consumer.py:53, 72):
\* the session's deque, a new empty one on the first lookup
History(ev, sid) == IF ev[sid].present THEN ev[sid].window ELSE << >>

NoFeatures ==
    [tab_switches |-> 0, copy_paste_count |-> 0, context_menu_count |-> 0,
     fullscreen_exits |-> 0, focus_loss_count |-> 0, event_rate_per_min |-> 0]

\* no delivery settled yet
Unsettled ==
    [ackCall |-> FALSE, nackCall |-> FALSE, requeue |-> FALSE,
     broker |-> "same", propagate |-> FALSE]

BehaviorIdle ==
    [outcome |-> "none", kind |-> "none", session |-> "none", persisted |-> FALSE,
     features |-> NoFeatures, risk_score |-> 0, published |-> << >>,
     settle |-> Unsettled]

\* BehaviorConsumer.process_message (behavior_consumer.py:60-103) on one
\* message.  msg.kind: "badjson" (json.loads raises), "nonobject" (msg.get
\* raises), "badts" (timestamp / 1000.0 raises), "badsession" (an unhashable
\* sessionId: self._events[...] raises), "event".  dbOk: _persist_event
\* commits its row; clf: what the classifier would answer; chOpen: the
\* inbound channel is still open when _on_message settles the delivery.
BehaviorProcessMessage(msg, dbOk, clf, chOpen) ==
    IF ~JsonLoads(msg) \/ msg.kind \in {"nonobject", "badts"}
    THEN /\ events' = events
         /\ bLast' = [BehaviorIdle EXCEPT !.outcome = "raise", !.kind = msg.kind,
                                          !.settle = OnMessage(TRUE, chOpen)]
    ELSE IF msg.kind = "badsession"
    THEN /\ events' = events
         /\ bLast' = [BehaviorIdle EXCEPT !.outcome = "raise", !.kind = msg.kind,
                                          !.settle = OnMessage(TRUE, chOpen)]
    ELSE LET history  == DequeAppend(History(events, WindowKey(msg.sessionId)),
                                     [et |-> msg.type, ts |-> msg.timestamp])
             features == ComputeFeatures(history, msg.timestamp)
             risk     == ScoreBehaviour(features, models, clf)
         IN  /\ events' = [events EXCEPT ![WindowKey(msg.sessionId)] =
                                           [present |-> TRUE, window |-> history]]
             /\ bLast' = [outcome    |-> "return",
                          kind       |-> msg.kind,
                          session    |-> msg.sessionId,
                          persisted  |-> dbOk,
                          features   |-> features,
                          risk_score |-> risk.risk_score,
                          published  |->
                             IF risk.risk_score < (30 * SCALE) \div 100
                                /\ risk.violations = << >>
                             THEN << >>
                             ELSE [k \in 1..Len(risk.violations) |->
                                     PublishBody(msg.sessionId, risk.violations[k],
                                                 "null", risk.risk_score)],
                          settle     |-> OnMessage(FALSE, chOpen)]

\* the plain in-order event of a run: a tab switch of session s1, stamped
\* with the senders' clock, its row persisted, the classifier answering
PlainInput ==
    [msg  |-> [kind |-> "event", sessionId |-> "s1", type |-> "TAB_SWITCH",
               timestamp |-> clock],
     dbOk |-> TRUE,
     clf  |-> [kind |-> "trained", proba |-> 0],
     chOpen |-> TRUE]

\* every message the broker can hand to the behavior consumer
BehaviorMessages ==
    [kind : {"event"}, sessionId : Sessions, type : EventLabels,
     timestamp : {clock, clock - Skew, clock + Skew}]
    \cup [kind : {"badjson", "nonobject", "badts", "badsession"},
          sessionId : {"s1"}, type : {"TAB_SWITCH"}, timestamp : {clock}]

\* what predict_proba can do in a run
ClassifierAnswers ==
    {[kind |-> "trained", proba |-> 0], [kind |-> "raises", proba |-> 0]}
    \cup [kind : {"given"},
          proba : {299960, 30 * SCALE, 399960, 90 * SCALE, 0 - 50 * SCALE, 150 * SCALE}]

\* the inputs of one process_message call: the plain one, and while the
\* run's budget of other inputs lasts, every other one
BehaviorInputs ==
    {PlainInput}
    \cup (IF varied < MaxVaried
          THEN [msg : BehaviorMessages, dbOk : BOOLEAN,
                clf : IF models.xgboost_loaded THEN ClassifierAnswers
                      ELSE {PlainInput.clf},
                chOpen : BOOLEAN]
          ELSE {})

\* one message of behavior.events is handled
BehaviorHandle ==
    /\ clock < ClockStart + MaxEvents * ClockStep
    /\ \E in \in BehaviorInputs :
          /\ BehaviorProcessMessage(in.msg, in.dbOk, in.clf, in.chOpen)
          /\ varied' = IF in = PlainInput THEN varied ELSE varied + 1
    /\ clock' = clock + ClockStep
    /\ UNCHANGED <<models, consumerVars, frameVars, audioVars, pubVars, scoreVars, bootVars, lockVars, fleetVars, consumer,
                   settings>>

\* BehaviorConsumer.__init__ (behavior_consumer.py:50-54): no session tracked
BehaviorInit ==
    /\ events = [sid \in Sessions |-> [present |-> FALSE, window |-> << >>]]
    /\ clock  = ClockStart
    /\ varied = 0
    /\ bLast  = BehaviorIdle

\* the registry as load_all_models leaves it (model_loader.py:83-98): the
\* classifier loaded, or the flag false and the artifact null
Registries ==
    {[xgboost_loaded |-> TRUE,  xgboost |-> "clf"],
     [xgboost_loaded |-> FALSE, xgboost |-> "null"]}

(* ----------- process_message step by step, several callers ----------- *)

\* the threads that call process_message of the one BehaviorConsumer
Callers == {"t1", "t2"}

CallerIdle ==
    [pc |-> "idle", session |-> "none", et |-> "none", now |-> 0,
     features |-> NoFeatures, calls |-> 0]

\* behavior_consumer.py:61-69: the message is parsed and the event persisted;
\* nothing of self._events is touched
EnterProcessMessage(t) ==
    /\ callers[t].pc = "idle"
    /\ callers[t].calls < MaxCalls
    /\ \E sid \in Sessions, et \in {"TAB_SWITCH", "COPY_PASTE"} :
          callers' = [callers EXCEPT ![t] =
                        [pc |-> "acquire", session |-> sid, et |-> et,
                         now |-> ClockStart, features |-> NoFeatures,
                         calls |-> callers[t].calls + 1]]
    /\ UNCHANGED <<lock, consumerVars, behaviorVars, frameVars, audioVars, pubVars,
                   scoreVars, bootVars, fleetVars, consumer, settings>>

\* faulty variant of LockAvailable: acquiring never waits
LockAlwaysAvailable(l) == TRUE

\* threading.Lock.acquire returns only while no thread holds the lock
LockAvailable(l) == l = "free"

\* `with self._lock:` is entered (behavior_consumer.py:71)
AcquireLock(t) ==
    /\ callers[t].pc = "acquire"
    /\ LockAvailable(lock)
    /\ lock' = t
    /\ callers' = [callers EXCEPT ![t].pc = "lookup"]
    /\ UNCHANGED <<consumerVars, behaviorVars, frameVars, audioVars, pubVars,
                   scoreVars, bootVars, fleetVars, consumer, settings>>

\* history = self._events[session_id] (behavior_consumer.py:72): the
\* defaultdict inserts an empty deque for a session it does not hold
LookupHistory(t) ==
    /\ callers[t].pc = "lookup"
    /\ events' = [events EXCEPT ![callers[t].session] =
                    [present |-> TRUE, window |-> History(events, callers[t].session)]]
    /\ callers' = [callers EXCEPT ![t].pc = "append"]
    /\ UNCHANGED <<lock, clock, varied, models, bLast, consumerVars, frameVars,
                   audioVars, pubVars, scoreVars, bootVars, fleetVars, consumer, settings>>

\* history.append((event_type, now_sec)) (behavior_consumer.py:73)
AppendHistory(t) ==
    /\ callers[t].pc = "append"
    /\ events' = [events EXCEPT ![callers[t].session].window =
                    DequeAppend(@, [et |-> callers[t].et, ts |-> callers[t].now])]
    /\ callers' = [callers EXCEPT ![t].pc = "features"]
    /\ UNCHANGED <<lock, clock, varied, models, bLast, consumerVars, frameVars,
                   audioVars, pubVars, scoreVars, bootVars, fleetVars, consumer, settings>>

\* features = _compute_features(history, now_sec) (behavior_consumer.py:76)
BuildFeatures(t) ==
    /\ callers[t].pc = "features"
    /\ callers' = [callers EXCEPT
                     ![t].pc = "release",
                     ![t].features = ComputeFeatures(events[callers[t].session].window,
                                                     callers[t].now)]
    /\ UNCHANGED <<lock, consumerVars, behaviorVars, frameVars, audioVars, pubVars,
                   scoreVars, bootVars, fleetVars, consumer, settings>>

\* the with block is left and the lock released; the rest of process_message
\* (behavior_consumer.py:78-103) works on features only
ReleaseLock(t) ==
    /\ callers[t].pc = "release"
    /\ lock' = "free"
    /\ callers' = [callers EXCEPT ![t].pc = "idle"]
    /\ UNCHANGED <<consumerVars, behaviorVars, frameVars, audioVars, pubVars,
                   scoreVars, bootVars, fleetVars, consumer, settings>>

\* BehaviorConsumer.__init__ (behavior_consumer.py:54): the lock is free, no
\* thread inside process_message
LockInit ==
    /\ lock = "free"
    /\ callers = [t \in Callers |-> CallerIdle]

(* ---------------- the three consumer threads side by side ------------ *)

\* the consumers main.lifespan builds and starts (main.py:42-48)
Consumers == {"frame", "audio", "behavior"}

\* faulty variant of QueueName: every consumer reads behavior.events
SharedQueueName(c) == "behavior.events"

\* the queue_name property of the three subclasses (frame_consumer.py:38-46,
\* audio_consumer.py:27-35, behavior_consumer.py:39-58)
QueueName(c) ==
    CASE c = "frame"    -> "frame.analysis"
      [] c = "audio"    -> "audio.analysis"
      [] c = "behavior" -> "behavior.events"

QueueNames == {"frame.analysis", "audio.analysis", "behavior.events"}

\* the thread of consumer c: pc its position in run(); connection:
\* self._connection/self._channel (None, or the number of the connection);
\* conns: connections it has opened; settled: messages it acked or nacked
FleetThreadStart == [pc |-> "check", connection |-> None, conns |-> 0, settled |-> 0]

\* run() calls _connect (base_consumer.py:65-68, 86-100): a connection and a
\* channel of its own, the queue asserted, prefetch set; or the broker
\* refuses and run() goes to sleep (base_consumer.py:69-78)
FleetConnect(c) ==
    /\ fleet.threads[c].pc = "check"
    /\ \/ /\ fleet.threads[c].conns < MaxFleetConns
          /\ fleet' = [fleet EXCEPT
                         !.threads[c].pc = "consuming",
                         !.threads[c].conns = @ + 1,
                         !.threads[c].connection = fleet.threads[c].conns + 1]
       \/ fleet' = [fleet EXCEPT !.threads[c].pc = "sleep"]
    /\ UNCHANGED <<consumerVars, behaviorVars, frameVars, audioVars, pubVars,
                   scoreVars, bootVars, lockVars, consumer, settings>>

\* time.sleep(_RECONNECT_DELAY) is over, run() iterates (base_consumer.py:73, 78)
FleetSleep(c) ==
    /\ fleet.threads[c].pc = "sleep"
    /\ fleet' = [fleet EXCEPT !.threads[c].pc = "check"]
    /\ UNCHANGED <<consumerVars, behaviorVars, frameVars, audioVars, pubVars,
                   scoreVars, bootVars, lockVars, consumer, settings>>

\* start_consuming() hands the next message of the consumer's queue to
\* _on_message (base_consumer.py:102-116); with prefetch_count 1 the broker
\* sends one only while the channel has no unacknowledged delivery
FleetDeliver(c) ==
    LET q == QueueName(c)
    IN  /\ fleet.threads[c].pc = "consuming"
        /\ fleet.queues[q].ready > 0
        /\ fleet.queues[q].unacked < DEFAULT_PREFETCH
        /\ fleet' = [fleet EXCEPT !.threads[c].pc = "handling",
                                  !.queues[q].ready = @ - 1,
                                  !.queues[q].unacked = @ + 1]
        /\ UNCHANGED <<consumerVars, behaviorVars, frameVars, audioVars, pubVars,
                       scoreVars, bootVars, lockVars, consumer, settings>>

\* process_message and the settling of the delivery (base_consumer.py:117-123).
\* how: "return" (acked), "raise" (nacked, requeue=False), "block" (the
\* handler never returns), "lost" (the connection is lost under the handler:
\* the exception leaves start_consuming, run() closes the connection and
\* sleeps, the broker puts the unacknowledged message back)
FleetProcess(c) ==
    LET q == QueueName(c)
    IN  /\ fleet.threads[c].pc = "handling"
        /\ \E how \in {"return", "raise", "block", "lost"} :
              fleet' =
                 CASE how \in {"return", "raise"} ->
                        [fleet EXCEPT !.threads[c].pc = "consuming",
                                      !.threads[c].settled = @ + 1,
                                      !.queues[q].unacked = @ - 1]
                   [] how = "block" ->
                        [fleet EXCEPT !.threads[c].pc = "blocked"]
                   [] how = "lost" ->
                        [fleet EXCEPT !.threads[c].pc = "sleep",
                                      !.threads[c].connection = None,
                                      !.queues[q].unacked = @ - 1,
                                      !.queues[q].ready = @ + 1]
        /\ UNCHANGED <<consumerVars, behaviorVars, frameVars, audioVars, pubVars,
                       scoreVars, bootVars, lockVars, consumer, settings>>

\* one step of the thread of consumer c
FleetStep(c) ==
    \/ FleetConnect(c)
    \/ FleetSleep(c)
    \/ FleetDeliver(c)
    \/ FleetProcess(c)

\* the three threads constructed (base_consumer.py:39-44), each queue holding
\* MaxFleetMsgs messages
FleetInit ==
    fleet = [threads |-> [c \in Consumers |-> FleetThreadStart],
             queues  |-> [q \in QueueNames |-> [ready |-> MaxFleetMsgs, unacked |-> 0]]]

(* ========================= frame_consumer.py ========================== *)

\* base64.b64decode(frame_b64) (frame_consumer.py:57), validate=False.  fd is
\* the frameData value: type "str" or "other" (a number, a list, null);
\* stray: it holds characters outside the base64 alphabet, which the decoder
\* discards before it looks at the padding; padding "ok" or "bad" (the rest is
\* not a whole number of quads); payload: what the rest decodes to.
B64Decode(fd) ==
    IF fd.type # "str" THEN [raises |-> TRUE, bytes |-> "none"]
    ELSE IF fd.padding = "bad" THEN [raises |-> TRUE, bytes |-> "none"]
    ELSE [raises |-> FALSE, bytes |-> fd.payload]

\* cv2.imdecode(arr, cv2.IMREAD_COLOR) (frame_consumer.py:58-59): a frame for
\* the bytes of an image, None for other bytes, an error for an empty buffer
ImDecode(bytes) ==
    IF bytes = "jpeg" THEN [raises |-> FALSE, frame |-> "frame"]
    ELSE IF bytes = "empty" THEN [raises |-> TRUE, frame |-> "none"]
    ELSE [raises |-> FALSE, frame |-> "none"]

\* frame_consumer.py:55-64: the decode block; TRUE when it leaves a frame,
\* FALSE when the except branch returns.  cv2ok: `import cv2` succeeds.
DecodeFrame(fd, cv2ok) ==
    IF ~cv2ok THEN FALSE
    ELSE LET raw == B64Decode(fd)
         IN  IF raw.raises THEN FALSE
             ELSE LET img == ImDecode(raw.bytes)
                  IN  ~img.raises /\ img.frame # "none"

\* msg.get("frameData", "") of a message without the key
EmptyFrameData ==
    [type |-> "str", stray |-> FALSE, padding |-> "ok", payload |-> "empty"]

FrameIdle ==
    [kind |-> "none", frameData |-> EmptyFrameData, decoded |-> FALSE,
     outcome |-> "none", session |-> "none", violations |-> << >>,
     severity |-> "NONE", risk_score |-> 0, snapshot_path |-> "null",
     effects |-> << >>, settle |-> Unsettled]

\* faulty variant of SnapshotAttempted: a snapshot for every violation
SnapshotAlways(risk) == TRUE

\* frame_consumer.py:93-106: the snapshot branch.  upload: what
\* MinioClient.upload_bytes does: "key" (returns the object key), "none"
\* (S3Error: returns None), "raise" (any other error, caught at line 105).
SnapshotAttempted(risk) == risk.severity \in {"HIGH", "CRITICAL"}

\* faulty variant of PublishedSeverity: the frame's aggregate severity
AggregateSeverity(violation, risk) == risk.severity

\* frame_consumer.py:120: severity = violation["severity"]
PublishedSeverity(violation, risk) == violation.severity

SnapshotPath(risk, upload) ==
    IF SnapshotAttempted(risk) /\ upload = "key" THEN "key" ELSE "null"

\* FrameConsumer.process_message (frame_consumer.py:48-127) under
\* _on_message.  msg.kind: "badjson" (json.loads raises), "nonobject"
\* (msg.get raises), "object"; msg.sessionId "missing" when the key is absent;
\* vision: what the four analyzers report for the decoded frame; effects: the
\* upload_bytes and publish_result calls in the order they are made.
FrameProcessMessage(msg, cv2ok, vision, upload, chOpen) ==
    IF ~JsonLoads(msg) \/ msg.kind = "nonobject"
    THEN [FrameIdle EXCEPT !.kind = msg.kind, !.outcome = "raise",
                           !.settle = OnMessage(TRUE, chOpen)]
    ELSE LET session_id == IF msg.sessionId = "missing" THEN "unknown"
                           ELSE msg.sessionId
         IN  IF ~DecodeFrame(msg.frameData, cv2ok)
             THEN [FrameIdle EXCEPT
                      !.kind = msg.kind, !.frameData = msg.frameData,
                      !.session = session_id,
                      !.outcome = "return",
                      !.settle = OnMessage(FALSE, chOpen)]
             ELSE LET risk == ScoreFrame(vision)
                      path == SnapshotPath(risk, upload)
                  IN  [kind          |-> msg.kind,
                       frameData     |-> msg.frameData,
                       decoded       |-> TRUE,
                       outcome       |-> "return",
                       session       |-> session_id,
                       violations    |-> risk.violations,
                       severity      |-> risk.severity,
                       risk_score    |-> risk.risk_score,
                       snapshot_path |-> IF risk.violations = << >> THEN "null"
                                         ELSE path,
                       effects       |->
                          IF risk.violations = << >> THEN << >>
                          ELSE (IF SnapshotAttempted(risk)
                                THEN << [op |-> "upload", result |-> upload] >>
                                ELSE << >>)
                               \o [k \in 1..Len(risk.violations) |->
                                     [op |-> "publish",
                                      body |-> PublishBody(session_id,
                                                  [risk.violations[k] EXCEPT
                                                     !.severity = PublishedSeverity(
                                                        risk.violations[k], risk)],
                                                  path, risk.risk_score)]],
                       settle        |-> OnMessage(FALSE, chOpen)]

\* the frameData values of a run
FrameDataValues ==
    [type : {"str"}, stray : BOOLEAN, padding : {"ok", "bad"},
     payload : {"jpeg", "junk", "empty"}]
    \cup {[type |-> "other", stray |-> FALSE, padding |-> "ok", payload |-> "junk"]}

\* the messages the broker can hand to the frame consumer
FrameMessages ==
    [kind : {"object"}, sessionId : {"s1", "missing"}, frameData : FrameDataValues]
    \cup [kind : {"badjson", "nonobject"}, sessionId : {"missing"},
          frameData : {EmptyFrameData}]

\* the best confidences the object detector finds in a run, rounded to 3
\* decimals (object_detector.py:84, 86)
Confidences == {0, (50 * SCALE) \div 100, 8770, (90 * SCALE) \div 100, SCALE}

\* config.py:62-63  phone_confidence_threshold, notes_confidence_threshold
phone_confidence_threshold == (50 * SCALE) \div 100

notes_confidence_threshold == (55 * SCALE) \div 100

\* what the four analyzers can report for a frame: a face is present exactly
\* when at least one was counted (face_monitor.py:59-78); an object is
\* detected exactly when its best confidence reaches the threshold
\* (object_detector.py:79-80)
VisionRecords ==
    {v \in [face_present : BOOLEAN, face_count : 0..2, gaze_off_screen : BOOLEAN,
            eyes_closed : BOOLEAN, mouth_open : BOOLEAN, phone_detected : BOOLEAN,
            notes_detected : BOOLEAN, extra_person : BOOLEAN,
            phone_confidence : Confidences, notes_confidence : Confidences] :
        /\ v.face_present = (v.face_count > 0)
        /\ v.phone_detected = (v.phone_confidence >= phone_confidence_threshold)
        /\ v.notes_detected = (v.notes_confidence >= notes_confidence_threshold)}

\* VisionResult() defaults (risk_aggregator.py:49-62): the clean frame
CleanVision ==
    [face_present |-> TRUE, face_count |-> 1, gaze_off_screen |-> FALSE,
     eyes_closed |-> FALSE, mouth_open |-> FALSE, phone_detected |-> FALSE,
     notes_detected |-> FALSE, extra_person |-> FALSE,
     phone_confidence |-> 0, notes_confidence |-> 0]

\* face_monitor.analyze (face_monitor.py:41-93): without mediapipe the
\* import at line 49 raises ImportError and _default_result() is returned;
\* seen: what the detector reports for the frame when it runs
FaceMonitorAnalyze(reg, seen) ==
    IF reg.mediapipe_available
    THEN [face_present |-> seen.face_present, face_count |-> seen.face_count]
    ELSE [face_present |-> TRUE, face_count |-> 1]

\* gaze_tracker.analyze (gaze_tracker.py:83-159): the default without
\* mediapipe (lines 85-89)
GazeTrackerAnalyze(reg, seen) ==
    IF reg.mediapipe_available
    THEN [gaze_off_screen |-> seen.gaze_off_screen, eyes_closed |-> seen.eyes_closed]
    ELSE [gaze_off_screen |-> FALSE, eyes_closed |-> FALSE]

\* mouth_monitor.analyze (mouth_monitor.py:47-90): the default without
\* mediapipe (lines 49-52)
MouthMonitorAnalyze(reg, seen) ==
    IF reg.mediapipe_available THEN [mouth_open |-> seen.mouth_open]
    ELSE [mouth_open |-> FALSE]

\* object_detector.analyze (object_detector.py:39-104): the default when the
\* detector is not loaded (line 43)
ObjectDetectorAnalyze(reg, seen) ==
    IF ~reg.yolo_loaded \/ reg.yolo = "null"
    THEN [phone_detected |-> FALSE, notes_detected |-> FALSE,
          extra_person |-> FALSE, phone_confidence |-> 0, notes_confidence |-> 0]
    ELSE [phone_detected |-> seen.phone_detected,
          notes_detected |-> seen.notes_detected,
          extra_person |-> seen.extra_person,
          phone_confidence |-> seen.phone_confidence,
          notes_confidence |-> seen.notes_confidence]

\* the four analyzers run on the decoded frame and their results are
\* gathered (frame_consumer.py:67-84).  The import of mediapipe inside an
\* analyzer ends as the one load_all_models tried (model_loader.py:111-117).
Analyze(reg, seen) ==
    LET face   == FaceMonitorAnalyze(reg, seen)
        gaze   == GazeTrackerAnalyze(reg, seen)
        mouth  == MouthMonitorAnalyze(reg, seen)
        object == ObjectDetectorAnalyze(reg, seen)
    IN  [face_present     |-> face.face_present,
         face_count       |-> face.face_count,
         gaze_off_screen  |-> gaze.gaze_off_screen,
         eyes_closed      |-> gaze.eyes_closed,
         mouth_open       |-> mouth.mouth_open,
         phone_detected   |-> object.phone_detected,
         notes_detected   |-> object.notes_detected,
         extra_person     |-> object.extra_person,
         phone_confidence |-> object.phone_confidence,
         notes_confidence |-> object.notes_confidence]

\* one message of frame.analysis is handled.  The analyzers and the object
\* store only matter for a frame that decodes.
FrameHandle ==
    /\ fLast = FrameIdle
    /\ \E msg \in FrameMessages, cv2ok \in BOOLEAN, chOpen \in BOOLEAN :
          IF msg.kind = "object" /\ DecodeFrame(msg.frameData, cv2ok)
          THEN \E seen \in VisionRecords, upload \in {"key", "none", "raise"} :
                  fLast' = FrameProcessMessage(msg, cv2ok,
                              Analyze(boot.registry.val, seen), upload, chOpen)
          ELSE fLast' = FrameProcessMessage(msg, cv2ok, CleanVision, "none", chOpen)
    /\ UNCHANGED <<consumerVars, behaviorVars, audioVars, pubVars, scoreVars, bootVars, lockVars, fleetVars, consumer, settings>>

\* _on_message has returned; start_consuming waits for the next delivery
\* (base_consumer.py:108)
FrameAwait ==
    /\ fLast # FrameIdle
    /\ fLast' = FrameIdle
    /\ UNCHANGED <<consumerVars, behaviorVars, audioVars, pubVars, scoreVars, bootVars, lockVars, fleetVars, consumer, settings>>

\* FrameConsumer has no state of its own
FrameInit == fLast = FrameIdle

\* the thresholds of a deployment: the defaults, or lower ones from the
\* environment (config.py:67-68 are pydantic settings fields)
SettingsChoices ==
    {DefaultSettings,
     [high_risk_threshold |-> (50 * SCALE) \div 100,
      critical_threshold  |-> (70 * SCALE) \div 100]}

(* ========================= audio_consumer.py ========================== *)

\* config.py:65  speech_ratio_threshold
speech_ratio_threshold == (20 * SCALE) \div 100

\* audio_vad._default_result (audio_vad.py:111-117)
DefaultVad == [speech_detected |-> FALSE, speech_ratio |-> 0]

\* audio_vad.analyze (audio_vad.py:35-108) on the audioData value a:
\* a.loadable is false when base64, pydub/ffmpeg or the imports fail (every
\* error ends in the default result); otherwise the clip has a.total_frames
\* frames of 30 ms, a.speech_frames of them speech.  speech_detected compares
\* the exact ratio, speech_ratio is it rounded to 3 decimals.
VadAnalyze(a) ==
    IF ~a.loadable \/ a.total_frames = 0 THEN DefaultVad
    ELSE [speech_detected |->
              a.speech_frames * SCALE > speech_ratio_threshold * a.total_frames,
          speech_ratio |->
              ((a.speech_frames * 2000 + a.total_frames)
                   \div (2 * a.total_frames)) * 10]

AudioIdle ==
    [kind |-> "none", outcome |-> "none", session |-> "none",
     speech_detected |-> FALSE, speech_ratio |-> 0,
     effects |-> << >>, settle |-> Unsettled]

\* AudioConsumer.process_message (audio_consumer.py:37-75) under
\* _on_message.  msg.kind: "badjson" (json.loads raises), "nonobject"
\* (msg.get raises), "object"; effects: the publish_result calls.
AudioProcessMessage(msg, chOpen) ==
    IF ~JsonLoads(msg) \/ msg.kind = "nonobject"
    THEN [AudioIdle EXCEPT !.kind = msg.kind, !.outcome = "raise",
                           !.settle = OnMessage(TRUE, chOpen)]
    ELSE LET session_id == IF msg.sessionId = "missing" THEN "unknown"
                           ELSE msg.sessionId
             result == VadAnalyze(msg.audioData)
             ratio  == result.speech_ratio
             severity == IF ratio > (70 * SCALE) \div 100 THEN "HIGH"
                         ELSE IF ratio > (50 * SCALE) \div 100 THEN "MEDIUM"
                         ELSE "LOW"
         IN  [kind            |-> msg.kind,
              outcome         |-> "return",
              session         |-> session_id,
              speech_detected |-> result.speech_detected,
              speech_ratio    |-> ratio,
              effects         |->
                 IF ~result.speech_detected THEN << >>
                 ELSE << [op |-> "publish",
                          body |-> PublishBody(session_id,
                                      [event_type |-> "SUSPICIOUS_AUDIO",
                                       severity   |-> severity,
                                       confidence |-> Round3(ratio)],
                                      "null",
                                      ((ratio * 6 + 50) \div 100) * 10)] >>,
              settle          |-> OnMessage(FALSE, chOpen)]

\* the audioData values of a run: clips of 0, 3, 7, 10 or 20 frames
AudioDataValues ==
    {a \in [loadable : BOOLEAN, speech_frames : 0..20, total_frames : {0, 3, 7, 10, 20}] :
        a.speech_frames <= a.total_frames}

\* msg.get("audioData", "") of a message without the key
EmptyAudioData == [loadable |-> FALSE, speech_frames |-> 0, total_frames |-> 0]

\* the messages the broker can hand to the audio consumer
AudioMessages ==
    [kind : {"object"}, sessionId : {"s1", "missing"}, audioData : AudioDataValues]
    \cup [kind : {"badjson", "nonobject"}, sessionId : {"missing"},
          audioData : {EmptyAudioData}]

\* one message of audio.chunks is handled
AudioHandle ==
    /\ aLast = AudioIdle
    /\ \E msg \in AudioMessages, chOpen \in BOOLEAN :
          aLast' = AudioProcessMessage(msg, chOpen)
    /\ UNCHANGED <<consumerVars, behaviorVars, frameVars, pubVars, scoreVars, bootVars, lockVars, fleetVars, consumer,
                   settings>>

\* _on_message has returned; start_consuming waits for the next delivery
\* (base_consumer.py:108)
AudioAwait ==
    /\ aLast # AudioIdle
    /\ aLast' = AudioIdle
    /\ UNCHANGED <<consumerVars, behaviorVars, frameVars, pubVars, scoreVars, bootVars, lockVars, fleetVars, consumer,
                   settings>>

\* AudioConsumer has no state of its own
AudioInit == aLast = AudioIdle

(* ================= risk_aggregator.py: the scoring calls ============== *)

\* RiskResult() (risk_aggregator.py:86-91)
NoRisk == [risk_score |-> 0, severity |-> "NONE", violations |-> << >>]

\* AudioResult() (risk_aggregator.py:65-70)
NoAudio == [speech_detected |-> FALSE, speech_ratio |-> 0]

\* no scoring call in progress
ScoreIdle ==
    [fn |-> "none", vision |-> CleanVision, audio |-> NoAudio,
     features |-> NoFeatures,
     registry |-> [xgboost_loaded |-> FALSE, xgboost |-> "null"],
     clf |-> [kind |-> "trained", proba |-> 0], result |-> NoRisk]

\* the AudioResults a call of score_audio can get: speech_ratio is a ratio
\* in 0.0 .. 1.0 rounded to 3 decimals (audio_vad.py:101)
AudioResults ==
    [speech_detected : BOOLEAN,
     speech_ratio : {0, 2000, 2010, 3330, 5000, 5010, 7000, 8990, SCALE}]

\* the BehaviourFeatures a call of score_behaviour can get: counts of a
\* window and an events-per-minute rate (0, 2.0 and 12.0), and the record
\* of 15 tab switches, 10 copy-pastes, 5 context menus, 5 fullscreen
\* exits, 8 focus losses at 12.0 events per minute
FeatureInputs ==
    [tab_switches : {0, 1, 15}, copy_paste_count : {0, 1, 10},
     context_menu_count : {0, 3, 5}, fullscreen_exits : {0, 1, 4},
     focus_loss_count : {0, 1, 4, 8},
     event_rate_per_min : {0, 2 * SCALE, 12 * SCALE}]
    \cup {[tab_switches |-> 15, copy_paste_count |-> 10, context_menu_count |-> 5,
           fullscreen_exits |-> 5, focus_loss_count |-> 8,
           event_rate_per_min |-> 12 * SCALE]}

\* score_frame(vision) is called (frame_consumer.py:86)
ScoreFrameCall ==
    /\ scored = ScoreIdle
    /\ \E v \in VisionRecords :
          scored' = [ScoreIdle EXCEPT !.fn = "score_frame", !.vision = v,
                                      !.result = ScoreFrame(v)]
    /\ UNCHANGED <<consumerVars, behaviorVars, frameVars, audioVars, pubVars, bootVars, lockVars, fleetVars,
                   consumer, settings>>

\* score_audio(audio) is called
ScoreAudioCall ==
    /\ scored = ScoreIdle
    /\ \E a \in AudioResults :
          scored' = [ScoreIdle EXCEPT !.fn = "score_audio", !.audio = a,
                                      !.result = ScoreAudio(a)]
    /\ UNCHANGED <<consumerVars, behaviorVars, frameVars, audioVars, pubVars, bootVars, lockVars, fleetVars,
                   consumer, settings>>

\* score_behaviour(features) is called (behavior_consumer.py:78), the
\* registry and the classifier being what they are
ScoreBehaviourCall ==
    /\ scored = ScoreIdle
    /\ \E f \in FeatureInputs, reg \in Registries, clf \in ClassifierAnswers :
          scored' = [ScoreIdle EXCEPT !.fn = "score_behaviour", !.features = f,
                                      !.registry = reg, !.clf = clf,
                                      !.result = ScoreBehaviour(f, reg, clf)]
    /\ UNCHANGED <<consumerVars, behaviorVars, frameVars, audioVars, pubVars, bootVars, lockVars, fleetVars,
                   consumer, settings>>

\* the call returns its RiskResult
ScoreReturn ==
    /\ scored # ScoreIdle
    /\ scored' = ScoreIdle
    /\ UNCHANGED <<consumerVars, behaviorVars, frameVars, audioVars, pubVars, bootVars, lockVars, fleetVars,
                   consumer, settings>>

ScoreInit == scored = ScoreIdle

(* ================== main.py and model_loader.py: startup ============== *)

\* LoadedModels() (model_loader.py:20-45): nothing loaded
NoModels ==
    [yolo |-> "null", yolo_loaded |-> FALSE, xgboost |-> "null",
     xgboost_loaded |-> FALSE, face_encoder |-> "null",
     face_recognition_loaded |-> FALSE, mediapipe_available |-> FALSE]

\* the consumer threads in the order lifespan starts them (main.py:42-48)
ConsumerThreads == <<"frame", "audio", "behavior">>

\* the process enters lifespan: _models is None (model_loader.py:48), no
\* load attempted, no thread started.  tried: what each load attempt ended
\* in; got: what the last get_models() call returned
BootStart ==
    [pc |-> "yolo", m |-> NoModels,
     tried |-> [yolo |-> "no", xgboost |-> "no", face_recognition |-> "no",
                mediapipe |-> "no"],
     registry |-> [set |-> FALSE, val |-> NoModels],
     started |-> 0, got |-> NoModels]

\* model_loader.py:64-81.  how: "loaded" (the weights file exists),
\* "downloaded" (it does not; yolov8n is fetched and saved), "save_raises"
\* (fetched, m.yolo assigned, then m.yolo.save raises), "raises" (the import,
\* the constructor or os.makedirs raises)
LoadYolo ==
    /\ boot.pc = "yolo"
    /\ \E how \in {"loaded", "downloaded", "save_raises", "raises"} :
          boot' = [boot EXCEPT
                     !.pc = "xgboost",
                     !.tried.yolo = how,
                     !.m.yolo = IF how = "raises" THEN "null" ELSE "yolo",
                     !.m.yolo_loaded = how \in {"loaded", "downloaded"}]
    /\ UNCHANGED <<consumerVars, behaviorVars, frameVars, audioVars, pubVars, scoreVars,
                   lockVars, fleetVars, consumer, settings>>

\* model_loader.py:84-98.  how: "loaded", "missing" (no file at
\* xgboost_path), "raises" (the import or joblib.load raises)
LoadXgboost ==
    /\ boot.pc = "xgboost"
    /\ \E how \in {"loaded", "missing", "raises"} :
          boot' = [boot EXCEPT
                     !.pc = "face_recognition",
                     !.tried.xgboost = how,
                     !.m.xgboost = IF how = "loaded" THEN "clf" ELSE "null",
                     !.m.xgboost_loaded = (how = "loaded")]
    /\ UNCHANGED <<consumerVars, behaviorVars, frameVars, audioVars, pubVars, scoreVars,
                   lockVars, fleetVars, consumer, settings>>

\* model_loader.py:106, 115: the two import blocks catch ImportError only;
\* anything else the import raises leaves load_all_models
ImportEscapes(how) == how = "other_error"

\* model_loader.py:101-108.  how: "ok", "ImportError", "other_error" (the
\* import raises something that is not an ImportError)
LoadFaceRecognition ==
    /\ boot.pc = "face_recognition"
    /\ \E how \in {"ok", "ImportError", "other_error"} :
          boot' = [boot EXCEPT
                     !.pc = IF ImportEscapes(how) THEN "aborted" ELSE "mediapipe",
                     !.tried.face_recognition = how,
                     !.m.face_encoder = IF how = "ok" THEN "true" ELSE "null",
                     !.m.face_recognition_loaded = (how = "ok")]
    /\ UNCHANGED <<consumerVars, behaviorVars, frameVars, audioVars, pubVars, scoreVars,
                   lockVars, fleetVars, consumer, settings>>

\* model_loader.py:111-117
LoadMediapipe ==
    /\ boot.pc = "mediapipe"
    /\ \E how \in {"ok", "ImportError", "other_error"} :
          boot' = [boot EXCEPT
                     !.pc = IF ImportEscapes(how) THEN "aborted" ELSE "assign",
                     !.tried.mediapipe = how,
                     !.m.mediapipe_available = (how = "ok")]
    /\ UNCHANGED <<consumerVars, behaviorVars, frameVars, audioVars, pubVars, scoreVars,
                   lockVars, fleetVars, consumer, settings>>

\* model_loader.py:119-120: _models = m; load_models() returns to lifespan
AssignModels ==
    /\ boot.pc = "assign"
    /\ boot' = [boot EXCEPT !.pc = "start",
                            !.registry = [set |-> TRUE, val |-> boot.m]]
    /\ UNCHANGED <<consumerVars, behaviorVars, frameVars, audioVars, pubVars, scoreVars,
                   lockVars, fleetVars, consumer, settings>>

\* main.py:47-48: c.start() of the next consumer; after the last one the
\* application serves (main.py:51-53)
StartConsumer ==
    /\ boot.pc = "start"
    /\ boot' = [boot EXCEPT !.started = boot.started + 1,
                            !.pc = IF boot.started + 1 = Len(ConsumerThreads)
                                   THEN "serving" ELSE "start"]
    /\ UNCHANGED <<consumerVars, behaviorVars, frameVars, audioVars, pubVars, scoreVars,
                   lockVars, fleetVars, consumer, settings>>

\* faulty variant of RegistryMissing: get_models builds a registry each time
RegistryAlwaysMissing(reg) == TRUE

\* model_loader.py:126  _models is None
RegistryMissing(reg) == ~reg.set

\* model_loader.py:123-128: get_models() called by a started consumer thread
\* (object_detector.py:41, risk_aggregator.py:261) or, once the application
\* serves, by a route (routes.py:31, 76)
GetModels ==
    /\ boot.started > 0
    /\ LET reg == IF RegistryMissing(boot.registry)
                  THEN [set |-> TRUE, val |-> NoModels] ELSE boot.registry
       IN  boot' = [boot EXCEPT !.registry = reg, !.got = reg.val]
    /\ boot'.got # boot.got \/ boot'.registry # boot.registry
    /\ UNCHANGED <<consumerVars, behaviorVars, frameVars, audioVars, pubVars, scoreVars,
                   lockVars, fleetVars, consumer, settings>>

\* startup over, the three threads running, with the registry reg of the
\* behavior classifier and face_recognition imported; yolo and mediapipe: how
\* those two loads ended
Booted(reg, yolo, mediapipe) ==
    LET m == [yolo                     |-> IF yolo = "loaded" THEN "yolo" ELSE "null",
              yolo_loaded              |-> yolo = "loaded",
              xgboost                  |-> reg.xgboost,
              xgboost_loaded           |-> reg.xgboost_loaded,
              face_encoder             |-> "true",
              face_recognition_loaded  |-> TRUE,
              mediapipe_available      |-> mediapipe = "ok"]
    IN  [pc |-> "serving", m |-> m,
         tried |-> [yolo |-> yolo,
                    xgboost |-> IF reg.xgboost_loaded THEN "loaded" ELSE "missing",
                    face_recognition |-> "ok",
                    mediapipe |-> mediapipe],
         registry |-> [set |-> TRUE, val |-> m],
         started |-> Len(ConsumerThreads), got |-> m]

\* the consumers run: startup is over, the vision artifacts available
BootInit == boot = Booted(models, "loaded", "ok")

\* the consumers run: startup is over, with or without the vision artifacts
BootInitAnyVision ==
    \E yolo \in {"loaded", "raises"}, mediapipe \in {"ok", "ImportError"} :
       boot = Booted(models, yolo, mediapipe)

(* ------------------------------- Init --------------------------------- *)

\* BaseConsumer.__init__ (base_consumer.py:39-44), the thread started
\* (main.py:46-48), the inbound queue holding MaxMsgs messages
ConsumerInit ==
    /\ stopEvent  = FALSE
    /\ connection = None
    /\ channel    = None
    /\ pc         = "check"
    /\ curChan    = None
    /\ cur        = 0
    /\ timer      = 0
    /\ stopPc     = "idle"
    /\ conns      = <<>>
    /\ queue      = [k \in 1..MaxMsgs |-> k]
    /\ dlv        = <<>>

Init ==
    /\ ConsumerInit
    /\ BehaviorInit
    /\ FrameInit
    /\ AudioInit
    /\ PublisherInit
    /\ ScoreInit
    /\ consumer = "none"
    /\ models = [xgboost_loaded |-> FALSE, xgboost |-> "null"]
    /\ settings = DefaultSettings
    /\ BootInit
    /\ LockInit
    /\ FleetInit

(* --------------------------- specification ---------------------------- *)

\* the steps of run() outside process_message
RunStep ==
    \/ LoopCheck
    \/ ConnectOpen
    \/ ConnectChannel
    \/ ConnectQueueDeclare
    \/ ConnectBasicQos
    \/ ConsumeLoopSubscribe
    \/ ConsumeLoopStart
    \/ Dispatch
    \/ ConsumeLoopReturn
    \/ ConsumeLoopRaise
    \/ ExceptClose
    \/ ExceptClear
    \/ SleepTick
    \/ SleepDone

ThreadStep == RunStep \/ OnMessageSettle

StopStep == StopSet \/ StopClose \/ StopClear

BrokerStep == Deliver \/ BrokerCancel \/ ConnectionLost

Next == ThreadStep \/ StopStep \/ BrokerStep

Spec == Init /\ [][Next]_vars

\* The consumer thread and the stop() caller are scheduled fairly; the broker
\* owes nothing.
LiveSpec == Spec /\ WF_vars(ThreadStep) /\ WF_vars(StopStep)

\* BehaviorConsumer handling the messages of its queue one after the other,
\* with the registry as load_all_models left it.
InitBehavior ==
    /\ ConsumerInit
    /\ BehaviorInit
    /\ FrameInit
    /\ AudioInit
    /\ PublisherInit
    /\ ScoreInit
    /\ consumer = "none"
    /\ models \in Registries
    /\ settings = DefaultSettings
    /\ BootInit
    /\ LockInit
    /\ FleetInit

BehaviorNext == BehaviorHandle

SpecBehavior == InitBehavior /\ [][BehaviorNext]_vars

\* FrameConsumer handling the messages of its queue one after the other
InitFrame ==
    /\ ConsumerInit
    /\ BehaviorInit
    /\ FrameInit
    /\ AudioInit
    /\ PublisherInit
    /\ ScoreInit
    /\ consumer = "none"
    /\ models = [xgboost_loaded |-> FALSE, xgboost |-> "null"]
    /\ settings \in SettingsChoices
    /\ BootInitAnyVision
    /\ LockInit
    /\ FleetInit

FrameNext == FrameHandle \/ FrameAwait

SpecFrame == InitFrame /\ [][FrameNext]_vars

(* --------------- the three consumers under run() ---------------------- *)

\* the frame of a run's plain frame message: a phone in view
PhoneVision ==
    [CleanVision EXCEPT !.phone_detected = TRUE, !.phone_confidence = 8770]

\* the body of inbound message m as consumer c reads it: message 1 is not
\* valid JSON, every other one is the plain message of that queue
InboundBody(c, m) ==
    IF c = "behavior"
    THEN IF m = 1 THEN [kind |-> "badjson", sessionId |-> "s1",
                        type |-> "TAB_SWITCH", timestamp |-> clock]
         ELSE PlainInput.msg
    ELSE IF c = "frame"
    THEN IF m = 1 THEN [kind |-> "badjson", sessionId |-> "missing",
                        frameData |-> EmptyFrameData]
         ELSE [kind |-> "object", sessionId |-> "s1",
               frameData |-> [type |-> "str", stray |-> FALSE, padding |-> "ok",
                              payload |-> "jpeg"]]
    ELSE IF m = 1 THEN [kind |-> "badjson", sessionId |-> "missing",
                        audioData |-> EmptyAudioData]
         ELSE [kind |-> "object", sessionId |-> "s1",
               audioData |-> [loadable |-> TRUE, speech_frames |-> 2,
                              total_frames |-> 3]]

\* _on_message of a BehaviorConsumer (base_consumer.py:110-123 calling
\* behavior_consumer.py:60-103)
BehaviorOnMessage ==
    /\ pc = "handling"
    /\ consumer = "behavior"
    /\ \E dbOk \in BOOLEAN :
          BehaviorProcessMessage(InboundBody(consumer, dlv[cur].msg), dbOk,
                                 PlainInput.clf, ChanOpen(curChan))
    /\ clock' = clock + ClockStep
    /\ Settle(bLast'.outcome = "raise")
    /\ UNCHANGED <<varied, models, frameVars, audioVars, pubVars, scoreVars, bootVars, lockVars, fleetVars, consumer, settings>>

\* _on_message of a FrameConsumer (base_consumer.py:110-123 calling
\* frame_consumer.py:48-127)
FrameOnMessage ==
    /\ pc = "handling"
    /\ consumer = "frame"
    /\ \E upload \in {"key", "none", "raise"} :
          fLast' = FrameProcessMessage(InboundBody(consumer, dlv[cur].msg), TRUE,
                                       PhoneVision, upload, ChanOpen(curChan))
    /\ Settle(fLast'.outcome = "raise")
    /\ UNCHANGED <<behaviorVars, audioVars, pubVars, scoreVars, bootVars, lockVars, fleetVars, consumer, settings>>

\* _on_message of an AudioConsumer (base_consumer.py:110-123 calling
\* audio_consumer.py:37-75)
AudioOnMessage ==
    /\ pc = "handling"
    /\ consumer = "audio"
    /\ aLast' = AudioProcessMessage(InboundBody(consumer, dlv[cur].msg),
                                    ChanOpen(curChan))
    /\ Settle(aLast'.outcome = "raise")
    /\ UNCHANGED <<behaviorVars, frameVars, pubVars, scoreVars, bootVars, lockVars, fleetVars, consumer, settings>>

\* main.py:35-48: the consumer thread runs one of the three subclasses
InitInbound ==
    /\ ConsumerInit
    /\ BehaviorInit
    /\ FrameInit
    /\ AudioInit
    /\ PublisherInit
    /\ ScoreInit
    /\ consumer \in {"behavior", "frame", "audio"}
    /\ models = [xgboost_loaded |-> FALSE, xgboost |-> "null"]
    /\ settings = DefaultSettings
    /\ BootInit
    /\ LockInit
    /\ FleetInit

InboundNext ==
    \/ RunStep
    \/ BehaviorOnMessage
    \/ FrameOnMessage
    \/ AudioOnMessage
    \/ StopStep
    \/ BrokerStep

SpecInbound == InitInbound /\ [][InboundNext]_vars

\* the consumer threads publishing results, each from its handler
InitPublisher ==
    /\ ConsumerInit
    /\ BehaviorInit
    /\ FrameInit
    /\ AudioInit
    /\ PublisherInit
    /\ ScoreInit
    /\ consumer = "none"
    /\ models = [xgboost_loaded |-> FALSE, xgboost |-> "null"]
    /\ settings = DefaultSettings
    /\ BootInit
    /\ LockInit
    /\ FleetInit

SpecPublisher == InitPublisher /\ [][PublisherNext]_vars

\* publish_result building its bodies, call after call
PublishBodyNext == BuildBody

SpecPublishBody == InitPublisher /\ [][PublishBodyNext]_vars

\* AudioConsumer handling the messages of its queue one after the other
AudioNext == AudioHandle \/ AudioAwait

InitAudio ==
    /\ ConsumerInit
    /\ BehaviorInit
    /\ FrameInit
    /\ AudioInit
    /\ PublisherInit
    /\ ScoreInit
    /\ consumer = "none"
    /\ models = [xgboost_loaded |-> FALSE, xgboost |-> "null"]
    /\ settings = DefaultSettings
    /\ BootInit
    /\ LockInit
    /\ FleetInit

SpecAudio == InitAudio /\ [][AudioNext]_vars

\* the three scoring functions called on the results of the analyzers,
\* under the thresholds of the deployment
ScoreNext == ScoreFrameCall \/ ScoreAudioCall \/ ScoreBehaviourCall \/ ScoreReturn

InitScore ==
    /\ ConsumerInit
    /\ BehaviorInit
    /\ FrameInit
    /\ AudioInit
    /\ PublisherInit
    /\ ScoreInit
    /\ consumer = "none"
    /\ models = [xgboost_loaded |-> FALSE, xgboost |-> "null"]
    /\ settings \in SettingsChoices
    /\ BootInit
    /\ LockInit
    /\ FleetInit

SpecScore == InitScore /\ [][ScoreNext]_vars

\* the process from the start of lifespan on
InitStartup ==
    /\ ConsumerInit
    /\ BehaviorInit
    /\ FrameInit
    /\ AudioInit
    /\ PublisherInit
    /\ ScoreInit
    /\ boot = BootStart
    /\ LockInit
    /\ FleetInit
    /\ consumer = "none"
    /\ models = [xgboost_loaded |-> FALSE, xgboost |-> "null"]
    /\ settings = DefaultSettings

StartupNext ==
    \/ LoadYolo
    \/ LoadXgboost
    \/ LoadFaceRecognition
    \/ LoadMediapipe
    \/ AssignModels
    \/ StartConsumer
    \/ GetModels

SpecStartup == InitStartup /\ [][StartupNext]_vars

(* ------ SpecWindowLock: several threads inside process_message --------- *)

InitWindowLock ==
    /\ ConsumerInit
    /\ BehaviorInit
    /\ FrameInit
    /\ AudioInit
    /\ PublisherInit
    /\ ScoreInit
    /\ consumer = "none"
    /\ models \in Registries
    /\ settings = DefaultSettings
    /\ BootInit
    /\ LockInit
    /\ FleetInit

WindowLockNext ==
    \E t \in Callers :
       \/ EnterProcessMessage(t)
       \/ AcquireLock(t)
       \/ LookupHistory(t)
       \/ AppendHistory(t)
       \/ BuildFeatures(t)
       \/ ReleaseLock(t)

SpecWindowLock == InitWindowLock /\ [][WindowLockNext]_vars

(* ------ SpecHandlers: one of the three consumers and its messages ------ *)

\* the consumer of the run is one of the three subclasses, the deployment
\* has the registry and the thresholds it has
InitHandlers ==
    /\ ConsumerInit
    /\ BehaviorInit
    /\ FrameInit
    /\ AudioInit
    /\ PublisherInit
    /\ ScoreInit
    /\ consumer \in Consumers
    /\ models \in Registries
    /\ settings \in SettingsChoices
    /\ BootInit
    /\ LockInit
    /\ FleetInit

HandlersNext ==
    \/ consumer = "behavior" /\ BehaviorHandle
    \/ consumer = "frame" /\ FrameHandle
    \/ consumer = "frame" /\ FrameAwait
    \/ consumer = "audio" /\ AudioHandle
    \/ consumer = "audio" /\ AudioAwait

SpecHandlers == InitHandlers /\ [][HandlersNext]_vars

(* ------------- SpecFleet: the three consumers side by side ------------- *)

InitFleet ==
    /\ ConsumerInit
    /\ BehaviorInit
    /\ FrameInit
    /\ AudioInit
    /\ PublisherInit
    /\ ScoreInit
    /\ consumer = "none"
    /\ models \in Registries
    /\ settings = DefaultSettings
    /\ BootInit
    /\ LockInit
    /\ FleetInit

FleetNext == \E c \in Consumers : FleetStep(c)

SpecFleet == InitFleet /\ [][FleetNext]_vars

TypeOK ==
    /\ stopEvent \in BOOLEAN
    /\ connection \in 0..MaxConns /\ channel \in 0..MaxConns
    /\ curChan \in 0..MaxConns
    /\ cur \in 0..MaxDeliveries
    /\ timer \in 0..RECONNECT_DELAY
    /\ stopPc \in {"idle", "close", "clear", "returned"}
    /\ Len(conns) <= MaxConns /\ Len(dlv) <= MaxDeliveries

(* ====================== claims: consumer framework ==================== *)

AllUnacked == {i \in DOMAIN dlv : dlv[i].broker = "unacked"}

Started(i) == dlv[i].state \in {"handling", "done"}

\* C1: a delivery whose process_message raised gets basic_nack with
\* requeue=False and no basic_ack; no basic_nack is ever made with
\* requeue=True, and a nacked message never returns to the queue nor is
\* delivered again.
C1_RaiseNacksWithoutRequeue ==
    \A i \in DOMAIN dlv :
        /\ dlv[i].outcome = "raise" =>
              dlv[i].nack /\ ~dlv[i].ack /\ dlv[i].broker # "acked"
        /\ dlv[i].nack => ~dlv[i].requeue
        /\ dlv[i].broker = "nacked" =>
              /\ \A k \in DOMAIN queue : queue[k] # dlv[i].msg
              /\ \A j \in DOMAIN dlv : j > i => dlv[j].msg # dlv[i].msg

C1_Witness ==
    \E i \in DOMAIN dlv :
        dlv[i].outcome = "raise" /\ dlv[i].state = "done" /\ dlv[i].broker = "nacked"

\* C2 (as claimed): a delivery whose process_message returned normally is
\* acknowledged and basic_nack is never called for it, also when basic_ack
\* itself fails.
C2_ReturnAcksNeverNacks ==
    \A i \in DOMAIN dlv :
        dlv[i].outcome = "ret" =>
            dlv[i].ack /\ dlv[i].broker = "acked" /\ ~dlv[i].nack

\* C3 (as claimed): at most one delivered-but-unsettled message at a time,
\* prefetch 1 set on every channel before it subscribes, deliveries handled
\* in delivery order, and the handler of a delivery starts only after every
\* earlier delivery has been acked or nacked.
C3_NextOnlyAfterAckOrNack ==
    /\ Cardinality(AllUnacked) <= 1
    /\ \A c \in DOMAIN conns :
          conns[c].everSubscribed => conns[c].prefetch = DEFAULT_PREFETCH
    /\ \A i, j \in DOMAIN dlv :
          (j < i /\ Started(i)) => dlv[j].broker \in {"acked", "nacked"}

\* C3 (amended): as claimed, but the earlier delivery has been acked or
\* nacked, or the broker took it back because its connection closed; in
\* every case _on_message had finished with it (or it was never dispatched).
C3_NextOnlyAfterSettledOrRequeued ==
    /\ Cardinality(AllUnacked) <= 1
    /\ \A c \in DOMAIN conns :
          conns[c].everSubscribed => conns[c].prefetch = DEFAULT_PREFETCH
    /\ \A i, j \in DOMAIN dlv :
          (j < i /\ Started(i)) =>
              /\ dlv[j].broker \in {"acked", "nacked", "requeued"}
              /\ dlv[j].state \in {"done", "dropped"}
              /\ dlv[j].state = "done" => (dlv[j].ack \/ dlv[j].nack)
              /\ dlv[j].broker = "requeued" => ~conns[dlv[j].conn].open

C3_Witness ==
    \E i, j \in DOMAIN dlv :
        /\ j < i /\ dlv[i].state = "done" /\ dlv[j].state = "done"
        /\ dlv[j].broker = "acked" /\ dlv[i].conn = dlv[j].conn

\* C5 (as claimed): once stop() has returned, the consumer thread eventually
\* leaves the run loop and no broker connection of the consumer is open.
C5_StopEndsThread ==
    (stopPc = "returned") ~> (pc = "done" /\ OpenConns = {})

\* C6 (as claimed): once stop() has returned, no ack or nack reaches the
\* broker and no further message is dispatched to the handler.
C6_NothingAfterStop ==
    \A i \in DOMAIN dlv : ~dlv[i].afterStop /\ ~dlv[i].settledAfterStop

C8_PassiveAssertBeforeSubscribe ==
    \A c \in DOMAIN conns :
        /\ conns[c].declared # "none" => conns[c].passive
        /\ conns[c].everSubscribed => conns[c].declared = "ok"
        /\ conns[c].declared = "failed" =>
              /\ ~conns[c].everSubscribed
              /\ (conns[c].open /\ stopPc = "idle") => (pc = "close" /\ connection = c)

C8_Witness ==
    /\ Len(conns) = 2
    /\ conns[1].declared = "failed" /\ ~conns[1].open
    /\ conns[2].declared = "ok" /\ conns[2].subscribed

\* C9 (as claimed): the consumer never has more than one open broker
\* connection.
C9_AtMostOneOpenConnection == Cardinality(OpenConns) <= 1

(* ====================== claims: behavior consumer ===================== *)

\* C4: after any sequence of behavior events, every session's window in
\* _events holds at most _WINDOW_SIZE (50) entries.
C4_WindowAtMost50 ==
    \A sid \in Sessions : Len(events[sid].window) <= WINDOW_SIZE

\* a full window has taken one more event, an out-of-order or unknown one
\* among its entries
C4_Witness ==
    /\ Len(events["s1"].window) = WINDOW_SIZE
    /\ clock > ClockStart + WINDOW_SIZE * ClockStep
    /\ \E k \in 1..WINDOW_SIZE :
          \/ events["s1"].window[k].et \notin RecognizedLabels
          \/ (k > 1 /\ events["s1"].window[k].ts < events["s1"].window[k - 1].ts)

(* ======================= claims: frame consumer ======================= *)

\* the decoder rejects the frameData, or what it decodes to is not an image
BadFrameData(fd) ==
    \/ fd.type # "str"
    \/ fd.padding = "bad"
    \/ fd.payload # "jpeg"

\* C10 (as claimed): a frame message whose JSON parses but whose frameData is
\* invalid base64 or does not decode to an image makes process_message return
\* normally, with no publish_result call and no snapshot upload, and the
\* message is acked and not nacked.
C10_BadFrameAckedNoOutput ==
    (fLast.kind = "object" /\ BadFrameData(fLast.frameData)) =>
        /\ fLast.outcome = "return"
        /\ fLast.effects = << >>
        /\ fLast.settle.ackCall
        /\ fLast.settle.broker = "acked"
        /\ ~fLast.settle.nackCall

(* ==================== claims: malformed messages ====================== *)

\* the step in which _on_message finishes with the delivery it is handling
Finishes(i) == cur = i /\ cur' = 0

\* what the running consumer's process_message call left behind
LastRecord ==
    IF consumer = "behavior"
    THEN [kind |-> bLast.kind, outcome |-> bLast.outcome,
          published |-> bLast.published, uploaded |-> FALSE,
          persisted |-> bLast.persisted]
    ELSE IF consumer = "frame"
    THEN [kind |-> fLast.kind, outcome |-> fLast.outcome,
          published |-> SelectSeq(fLast.effects, LAMBDA e : e.op = "publish"),
          uploaded |-> \E k \in DOMAIN fLast.effects : fLast.effects[k].op = "upload",
          persisted |-> FALSE]
    ELSE [kind |-> aLast.kind, outcome |-> aLast.outcome,
          published |-> aLast.effects, uploaded |-> FALSE, persisted |-> FALSE]

\* handling a body that is not valid JSON raises before anything is
\* published, uploaded, persisted or put into the window map
BadJsonStep ==
    \A i \in DOMAIN dlv :
        (Finishes(i) /\ dlv[i].msg = 1) =>
            /\ LastRecord'.kind = "badjson"
            /\ LastRecord'.outcome = "raise"
            /\ LastRecord'.published = << >>
            /\ ~LastRecord'.uploaded
            /\ ~LastRecord'.persisted
            /\ events' = events
            /\ dlv'[i].nack /\ ~dlv'[i].requeue /\ ~dlv'[i].ack

\* C11 (as claimed): a message that is not valid JSON, on any of the three
\* consumers, is nacked without requeue and never handled again; handling it
\* publishes nothing, uploads nothing, persists no row and leaves the window
\* map unchanged.
C11_BadJsonNackedNeverHandledAgain ==
    /\ [](\A i \in DOMAIN dlv :
            (dlv[i].msg = 1 /\ dlv[i].state = "done") =>
                /\ dlv[i].broker = "nacked"
                /\ \A j \in DOMAIN dlv : (j > i /\ dlv[j].msg = 1) => ~Started(j))
    /\ [][BadJsonStep]_vars

\* C11 (amended): a message that is not valid JSON gets basic_nack with
\* requeue=False and no basic_ack, and once the broker has that nack the
\* message is never in the queue, delivered or handled again; handling it
\* publishes nothing, uploads nothing, persists no row and leaves the window
\* map unchanged.
C11_BadJsonNackedDroppedOnceNackArrives ==
    /\ [](\A i \in DOMAIN dlv :
            (dlv[i].msg = 1 /\ dlv[i].state = "done") =>
                /\ dlv[i].nack /\ ~dlv[i].requeue /\ ~dlv[i].ack
                /\ dlv[i].broker # "acked"
                /\ dlv[i].broker = "nacked" =>
                      /\ \A k \in DOMAIN queue : queue[k] # 1
                      /\ \A j \in DOMAIN dlv : j > i => dlv[j].msg # 1)
    /\ [][BadJsonStep]_vars

\* a behavior consumer dropped the malformed message and went on to put the
\* next event into its window
C11_Witness ==
    /\ consumer = "behavior"
    /\ \E i \in DOMAIN dlv :
          dlv[i].msg = 1 /\ dlv[i].state = "done" /\ dlv[i].broker = "nacked"
    /\ Tracked # {}

(* ======================== claims: publisher =========================== *)

\* the retry's _get_channel opened the connection of the channel it returned
RetryOnFresh(c) ==
    \E k \in DOMAIN c.opened : c.opened[k].attempt = 2 /\ c.opened[k].conn = c.ch

\* C12: one publish_result call attempts basic_publish at most twice and
\* succeeds at most once; after the first failure the thread's connection
\* handle is dropped and the one retry runs on a connection opened for it; a
\* second failure drops the message and the call returns without raising.
C12_AtMostTwoAttemptsRetryOnFresh ==
    \A t \in PubThreads :
        LET c == pcall[t]
        IN  /\ c.attempt <= 2 /\ c.publishes <= c.attempt /\ c.successes <= 1
            /\ c.outcome \in {"none", "published", "dropped"}
            /\ ppc[t] = "idle" => (c.outcome = "none") = (c.attempt = 0)
            /\ c.outcome = "published" => c.successes = 1 /\ ppc[t] = "idle"
            /\ c.outcome = "dropped" =>
                  c.attempt = 2 /\ c.successes = 0 /\ ppc[t] = "idle"
            /\ (c.attempt = 2 /\ ppc[t] = "get") =>
                  local[LocalKey(t)].connection = None
            /\ (c.attempt = 2 /\ (ppc[t] = "publish" \/ c.publishes = 2)) =>
                  RetryOnFresh(c)

\* a first basic_publish failed and the retry went through
C12_Witness ==
    \E t \in PubThreads :
        /\ pcall[t].publishes = 2 /\ pcall[t].successes = 1
        /\ pcall[t].outcome = "published"
        /\ \E u \in PubThreads : pcall[u].outcome = "dropped"

\* thread t takes a step of publish_result
PubStepOf(t) == ppc'[t] # ppc[t] \/ pcall'[t] # pcall[t]

\* C13: the publisher connection and channel are per thread: no channel is
\* ever published on by two threads, no two threads hold the same
\* connection, and a step of one thread (a failure and the handle reset
\* included) leaves every other thread's handles and connection as they are.
C13_PublisherHandlesAreThreadLocal ==
    /\ [](/\ \A e1, e2 \in pubLog : e1.chan = e2.chan => e1.thread = e2.thread
          /\ \A t, u \in PubThreads :
                t # u =>
                    /\ local[LocalKey(t)].connection # None =>
                          local[LocalKey(t)].connection # local[LocalKey(u)].connection
                    /\ local[LocalKey(t)].channel # None =>
                          local[LocalKey(t)].channel # local[LocalKey(u)].channel)
    /\ [][\A t, u \in PubThreads :
            (t # u /\ PubStepOf(t)) =>
                /\ local'[LocalKey(u)] = local[LocalKey(u)]
                /\ local[LocalKey(u)].connection # None =>
                      pconns'[local[LocalKey(u)].connection]
                          = pconns[local[LocalKey(u)].connection]]_vars

\* both threads have published, then one failed and lost its handle while
\* the other's connection is still open
C13_Witness ==
    \E t, u \in PubThreads :
        /\ t # u
        /\ \E e \in pubLog : e.thread = t /\ e.ok
        /\ \E e \in pubLog : e.thread = t /\ ~e.ok
        /\ \E e \in pubLog : e.thread = u /\ e.ok
        /\ local[LocalKey(t)].connection = None
        /\ PubIsOpen(local[LocalKey(u)].connection)

\* C14: every basic_publish is made on a channel that the calling thread
\* opened and on which exchange_declare succeeded after the channel was
\* opened; the exchange is declared by the thread that just created the
\* channel inside _get_channel, and no connection exists before a thread's
\* first publish_result call.
C14_PublishOnlyOnDeclaredChannel ==
    /\ [](/\ \A e \in pubLog :
                e.chan # None /\ e.declared /\ e.opener = e.thread
          /\ \A t \in PubThreads :
                ppc[t] = "publish" =>
                    /\ pcall[t].ch # None
                    /\ pconns[pcall[t].ch].declared
                    /\ pconns[pcall[t].ch].opener = t
          /\ \A c \in DOMAIN pconns : pcall[pconns[c].opener].attempt >= 1)
    /\ [][\A c \in DOMAIN pconns :
            (pconns'[c].declared /\ ~pconns[c].declared) =>
                \E t \in PubThreads :
                    /\ ppc[t] = "declare" /\ ppc'[t] = "publish"
                    /\ local[LocalKey(t)].channel = c
                    /\ pconns[c].opener = t
                    /\ pconns[c].chan = "open"]_vars

\* a thread published on its first channel and later on a re-created one
C14_Witness ==
    \E t \in PubThreads :
        \E e1, e2 \in pubLog :
            /\ e1.thread = t /\ e2.thread = t
            /\ e1.chan # e2.chan
            /\ e1.ok /\ e2.ok /\ e2.declared

\* C15: the body publish_result builds has riskScore within [0,1] whatever
\* risk_score is passed (0 for a negative one, 1 for one above 1), and its
\* confidence is null when None was passed and otherwise the 4-decimal
\* number nearest to the caller's confidence.
C15_RiskScoreClampedConfidenceRounded ==
    built.made =>
        /\ built.body.riskScore >= 0 /\ built.body.riskScore <= SCALE
        /\ built.args.risk_score < 0 => built.body.riskScore = 0
        /\ built.args.risk_score > 100 * SCALE => built.body.riskScore = SCALE
        /\ built.args.confidence.none => built.body.confidence = NullConfidence
        /\ ~built.args.confidence.none =>
              /\ ~built.body.confidence.none
              /\ built.body.confidence.val * 100 - built.args.confidence.val <= 50
              /\ built.args.confidence.val - built.body.confidence.val * 100 <= 50

\* a risk_score above 1 was clamped and a 6-decimal confidence was rounded
C15_Witness ==
    /\ built.made
    /\ built.args.risk_score > 100 * SCALE
    /\ built.body.riskScore = SCALE
    /\ ~built.args.confidence.none
    /\ built.body.confidence.val * 100 # built.args.confidence.val

(* ======================= claims: frame pipeline ======================= *)

\* the publish_result calls of the last frame, in order
FramePublishes == SelectSeq(fLast.effects, LAMBDA e : e.op = "publish")

\* the positions of upload_bytes calls among the last frame's effects
FrameUploads == {k \in DOMAIN fLast.effects : fLast.effects[k].op = "upload"}

\* C16: no message published by the frame pipeline carries severity LOW or
\* NONE: every violation score_frame returns, and every message
\* FrameConsumer publishes, has severity MEDIUM, HIGH or CRITICAL.
C16_NoLowSeverityPublished ==
    /\ \A k \in DOMAIN fLast.violations :
          fLast.violations[k].severity \in {"MEDIUM", "HIGH", "CRITICAL"}
    /\ \A k \in DOMAIN FramePublishes :
          FramePublishes[k].body.severity \in {"MEDIUM", "HIGH", "CRITICAL"}

\* a frame whose aggregate severity is LOW was published as MEDIUM or HIGH
C16_Witness ==
    /\ fLast.severity = "LOW"
    /\ FramePublishes # << >>

\* C17 (as claimed): for a decodable frame FrameConsumer publishes exactly
\* one message per violation of score_frame's result, in the list's order,
\* each with the aggregate risk_score and that violation's own event type,
\* severity and confidence; with an empty list it publishes nothing, uploads
\* nothing, and the message is acked.
C17_OneMessagePerViolationElseAcked ==
    fLast.decoded =>
        /\ fLast.outcome = "return"
        /\ Len(FramePublishes) = Len(fLast.violations)
        /\ \A k \in DOMAIN FramePublishes :
              LET b == FramePublishes[k].body
                  v == fLast.violations[k]
              IN  /\ b.eventType = v.event_type
                  /\ b.severity = v.severity
                  /\ b.confidence = [none |-> FALSE, val |-> v.confidence]
                  /\ b.riskScore = fLast.risk_score
                  /\ b.sessionId = fLast.session
        /\ fLast.violations = << >> =>
              /\ fLast.effects = << >>
              /\ fLast.settle.ackCall
              /\ fLast.settle.broker = "acked"

\* the part of C17 that does not depend on the acknowledgement: the
\* messages published for a decodable frame
FramePublishesMatchViolations ==
    fLast.decoded =>
        /\ fLast.outcome = "return"
        /\ Len(FramePublishes) = Len(fLast.violations)
        /\ \A k \in DOMAIN FramePublishes :
              LET b == FramePublishes[k].body
                  v == fLast.violations[k]
              IN  /\ b.eventType = v.event_type
                  /\ b.severity = v.severity
                  /\ b.confidence = [none |-> FALSE, val |-> v.confidence]
                  /\ b.riskScore = fLast.risk_score
        /\ fLast.violations = << >> =>
              /\ fLast.effects = << >>
              /\ fLast.settle.ackCall
              /\ fLast.settle.broker \in {"acked", "same"}

C19_SnapshotSavedBeforeHighEvent ==
    \A k \in DOMAIN fLast.effects :
        (/\ fLast.effects[k].op = "publish"
         /\ fLast.effects[k].body.severity \in {"HIGH", "CRITICAL"}) =>
            \E j \in 1..(k - 1) :
                /\ fLast.effects[j].op = "upload"
                /\ fLast.effects[j].result = "key"

\* the same with the object store always accepting the upload: the snapshot
\* branch is still skipped when the aggregate severity is below HIGH
SnapshotAttemptedBeforeHighEvent ==
    \A k \in DOMAIN fLast.effects :
        (/\ fLast.effects[k].op = "publish"
         /\ fLast.effects[k].body.severity \in {"HIGH", "CRITICAL"}) =>
            \E j \in 1..(k - 1) : fLast.effects[j].op = "upload"

\* the snapshot upload of the last frame was attempted and failed
UploadFailed ==
    \E k \in FrameUploads : fLast.effects[k].result \in {"none", "raise"}

\* C20 (as claimed): when the snapshot upload fails (upload_bytes raises or
\* returns None) FrameConsumer still publishes one message per violation
\* with snapshotPath null, and process_message returns normally, so the
\* frame message is acked.
C20_UploadFailureStillPublishesAndAcks ==
    UploadFailed =>
        /\ Len(FramePublishes) = Len(fLast.violations)
        /\ FramePublishes # << >>
        /\ \A k \in DOMAIN FramePublishes :
              /\ FramePublishes[k].body.snapshotPath = "null"
              /\ FramePublishes[k].body.eventType = fLast.violations[k].event_type
        /\ fLast.outcome = "return"
        /\ fLast.settle.ackCall
        /\ fLast.settle.broker = "acked"

\* the part of C20 that does not depend on the acknowledgement
UploadFailureStillPublishes ==
    UploadFailed =>
        /\ Len(FramePublishes) = Len(fLast.violations)
        /\ FramePublishes # << >>
        /\ \A k \in DOMAIN FramePublishes :
              /\ FramePublishes[k].body.snapshotPath = "null"
              /\ FramePublishes[k].body.eventType = fLast.violations[k].event_type
        /\ fLast.outcome = "return"
        /\ fLast.settle.ackCall
        /\ fLast.settle.broker \in {"acked", "same"}

(* ======================== claims: risk scoring ======================== *)

\* C21: for inputs in their declared ranges (confidences and speech_ratio in
\* [0,1], non-negative counters and rate) the risk_score that score_frame,
\* score_audio and score_behaviour (classifier path and rule fallback)
\* return lies in [0,1].
C21_RiskScoreInUnitInterval ==
    scored.fn # "none" =>
        /\ scored.result.risk_score >= 0
        /\ scored.result.risk_score <= SCALE

\* the rule fallback on features whose six terms add up to 1.45
C21_Witness ==
    /\ scored.fn = "score_behaviour"
    /\ ~ClassifierCalled(scored.registry)
    /\ RuleSumUncapped(scored.features) > SCALE * 100
    /\ scored.result.risk_score = SCALE

\* NONE < LOW < MEDIUM < HIGH < CRITICAL
SeverityRank(sev) ==
    CASE sev = "NONE" -> 0 [] sev = "LOW" -> 1 [] sev = "MEDIUM" -> 2
      [] sev = "HIGH" -> 3 [] sev = "CRITICAL" -> 4

\* scores around every tier boundary of both threshold settings
ScoreSamples ==
    {0, 1, 2999, 3999, 4000, 4999, 5000, 6999, 7000, 7499, 7500, 8999, 9000, SCALE}

\* _severity is monotone, and has the documented tiers under the defaults
SeverityMonotoneWithTiers ==
    /\ \A a, b \in ScoreSamples \cup {scored.result.risk_score} :
          a <= b => SeverityRank(Severity(a)) <= SeverityRank(Severity(b))
    /\ settings = DefaultSettings =>
          \A x \in ScoreSamples \cup {scored.result.risk_score} :
             Severity(x) = IF x >= 9000 THEN "CRITICAL"
                           ELSE IF x >= 7500 THEN "HIGH"
                           ELSE IF x >= 4000 THEN "MEDIUM"
                           ELSE IF x > 0 THEN "LOW" ELSE "NONE"

\* C22 (as claimed): _severity is a monotone non-decreasing function of the
\* score under NONE < LOW < MEDIUM < HIGH < CRITICAL, with tiers CRITICAL at
\* >= 0.90, HIGH at >= 0.75, MEDIUM at >= 0.40, LOW at > 0 and NONE at 0
\* under the default thresholds, and the severity field of every RiskResult
\* equals _severity of that result's score.
C22_SeverityMonotoneAndOfResultScore ==
    /\ SeverityMonotoneWithTiers
    /\ scored.fn # "none" =>
          scored.result.severity = Severity(scored.result.risk_score)

\* the part of C22 that holds of every result: the severity field is the
\* tier of the score, or of a score that rounds to it from just below the
\* boundary of the next tier
SeverityOfUnroundedScore ==
    /\ SeverityMonotoneWithTiers
    /\ scored.fn # "none" =>
          \/ scored.result.severity = Severity(scored.result.risk_score)
          \/ /\ scored.fn = "score_behaviour"
             /\ scored.result.risk_score > 0
             /\ scored.result.severity = Severity(scored.result.risk_score - 1)

\* the largest element of a non-empty set of numbers
MaxIn(S) == CHOOSE x \in S : \A y \in S : y <= x

\* C23's composite for the vision record v, with 6 decimals
C23_Composite(v) ==
    LET face   == IF ~v.face_present \/ v.face_count = 0 THEN SCALE
                  ELSE IF v.face_count >= 2 THEN 8000 ELSE 0
        gaze   == IF v.gaze_off_screen THEN SCALE ELSE 0
        objs   == (IF v.phone_detected THEN {MaxOf(v.phone_confidence, 7500)} ELSE {})
                  \cup (IF v.notes_detected THEN {MaxOf(v.notes_confidence, 6500)}
                        ELSE {})
                  \cup (IF v.extra_person THEN {8500} ELSE {})
        object == IF objs = {} THEN 0 ELSE MaxIn(objs)
        mouth  == IF v.mouth_open THEN 1000 ELSE 0
    IN  MinOf(SCALE * 100, 30 * face + 20 * gaze + 20 * object + 10 * mouth)

\* C23's violation list for the vision record v
C23_Violations(v) ==
    LET item(present, type, sev, conf) ==
            IF present
            THEN << [event_type |-> type, severity |-> sev, confidence |-> conf] >>
            ELSE << >>
        missing == ~v.face_present \/ v.face_count = 0
    IN  item(missing, "FACE_NOT_DETECTED", "HIGH", 9500)
        \o item(~missing /\ v.face_count >= 2, "MULTIPLE_FACES", "HIGH", 8500)
        \o item(v.gaze_off_screen, "GAZE_AWAY", "MEDIUM", 8000)
        \o item(v.phone_detected, "PHONE_DETECTED", "HIGH", v.phone_confidence)
        \o item(v.notes_detected, "NOTES_DETECTED", "MEDIUM", v.notes_confidence)
        \o item(v.extra_person, "MULTIPLE_PERSONS", "HIGH", 8500)

\* a clean frame but for a phone seen with confidence 0.90
PhoneAlone ==
    [CleanVision EXCEPT !.phone_detected = TRUE, !.phone_confidence = 9000]

PhoneAloneScored == scored.fn = "score_frame" /\ scored.vision = PhoneAlone

\* the last call was score_behaviour and the classifier gave no answer:
\* it was not asked, or it raised
RuleUsed ==
    /\ scored.fn = "score_behaviour"
    /\ ~ClassifierCalled(scored.registry) \/ scored.clf.kind = "raises"

\* C24's sum for the features f, with 4 decimals
C24_Rule(f) ==
    LET term(cap, factor, x) == MinOf(cap, factor * x)
    IN  MinOf(SCALE,
              term(4000, 600, f.tab_switches)
            + term(2500, 500, f.copy_paste_count)
            + term(2000, 400, f.context_menu_count)
            + term(2000, 500, f.fullscreen_exits)
            + term(2000, 400, f.focus_loss_count)
            + term(2000, 2, f.event_rate_per_min \div 100))

\* 15 tab switches, 10 copy-pastes, 5 context menus, 5 fullscreen exits,
\* 8 focus losses, 12 events per minute
C24_Example ==
    [tab_switches |-> 15, copy_paste_count |-> 10, context_menu_count |-> 5,
     fullscreen_exits |-> 5, focus_loss_count |-> 8,
     event_rate_per_min |-> 12 * SCALE]

\* what C24 says of the result but for its violation test
C24_RuleValueAndViolationShape ==
    /\ scored.result.risk_score = C24_Rule(scored.features)
    /\ Len(scored.result.violations) <= 1
    /\ \A k \in DOMAIN scored.result.violations :
          /\ scored.result.violations[k].event_type = "SUSPICIOUS_BEHAVIOR"
          /\ scored.result.violations[k].severity = scored.result.severity
          /\ scored.result.violations[k].confidence = scored.result.risk_score
    /\ scored.features = C24_Example =>
          scored.result.risk_score = SCALE /\ scored.result.severity = "CRITICAL"

\* C24 (as claimed): when the classifier is not used score_behaviour returns
\* min(1.0, sum of min(cap_i, factor_i * feature_i)) with (factor, cap) tab
\* 0.06/0.40, copy-paste 0.05/0.25, context-menu 0.04/0.20, fullscreen-exit
\* 0.05/0.20, focus-loss 0.04/0.20, rate 0.02/0.20; it emits exactly one
\* SUSPICIOUS_BEHAVIOR violation if and only if the returned risk_score is
\* >= 0.30, with severity _severity(risk) and confidence the risk; features
\* (15,10,5,5,8,12) give score 1.0, severity CRITICAL.
C24_RuleFallbackViolationIffScoreAtLeast030 ==
    RuleUsed =>
        /\ C24_RuleValueAndViolationShape
        /\ (Len(scored.result.violations) = 1) = (scored.result.risk_score >= 3000)

\* the part of C24 that holds: the value, the shape of the violation, the
\* example, and the violation being emitted exactly when the sum as the
\* doubles give it is at least 0.30
RuleFallbackViolationIffDoubleAtLeast030 ==
    RuleUsed =>
        /\ C24_RuleValueAndViolationShape
        /\ (Len(scored.result.violations) = 1)
              = (RuleBehaviourRisk(scored.features) >= 30 * SCALE)

\* what score_behaviour returns for the features f from the rule alone
RuleResult(f) ==
    LET risk == RuleBehaviourRisk(f)
    IN  [risk_score |-> Round4(risk),
         severity   |-> SeverityOn(risk, 100),
         violations |-> IF risk >= 30 * SCALE
                        THEN << [event_type |-> "SUSPICIOUS_BEHAVIOR",
                                 severity   |-> SeverityOn(risk, 100),
                                 confidence |-> Round3Of6(risk)] >>
                        ELSE << >>]

\* C25: if the classifier is flagged ready but inference raises,
\* score_behaviour returns exactly the result of the rule-based fallback for
\* the same features; if the classifier is not ready (flag false or
\* artifact null) the rule is used and the classifier is not called:
\* whatever it would have answered has no effect.
C25_ClassifierFailureFallsBackToRule ==
    scored.fn = "score_behaviour" =>
        /\ (ClassifierCalled(scored.registry) /\ scored.clf.kind = "raises") =>
              scored.result = RuleResult(scored.features)
        /\ (~scored.registry.xgboost_loaded \/ scored.registry.xgboost = "null") =>
              /\ ~ClassifierCalled(scored.registry)
              /\ scored.result = RuleResult(scored.features)

\* the classifier is loaded and raises on features the rule scores 0.59
C25_Witness ==
    /\ scored.fn = "score_behaviour"
    /\ scored.registry.xgboost_loaded
    /\ scored.clf.kind = "raises"
    /\ scored.result.risk_score = 5900
    /\ Len(scored.result.violations) = 1

\* the classifier is not loaded and would have answered 0.9: the rule is used
ClassifierNotAsked ==
    /\ scored.fn = "score_behaviour"
    /\ ~scored.registry.xgboost_loaded
    /\ scored.clf = [kind |-> "given", proba |-> 90 * SCALE]
    /\ scored.result.risk_score = 0

NoSpeechHighRatio ==
    /\ scored.fn = "score_audio"
    /\ ~scored.audio.speech_detected
    /\ scored.audio.speech_ratio = SCALE
    /\ scored.result = NoRisk

(* ======================= claims: audio consumer ======================= *)

AudioPublishes == SelectSeq(aLast.effects, LAMBDA e : e.op = "publish")

\* what C27 says the audio consumer publishes for the last message
AudioPublishesBySpeech ==
    IF ~aLast.speech_detected
    THEN aLast.effects = << >>
    ELSE /\ Len(aLast.effects) = 1
         /\ Len(AudioPublishes) = 1
         /\ AudioPublishes[1].body.sessionId = aLast.session
         /\ AudioPublishes[1].body.eventType = "SUSPICIOUS_AUDIO"
         /\ AudioPublishes[1].body.severity =
               IF aLast.speech_ratio > 7000 THEN "HIGH"
               ELSE IF aLast.speech_ratio > 5000 THEN "MEDIUM" ELSE "LOW"
         /\ AudioPublishes[1].body.confidence =
               [none |-> FALSE, val |-> aLast.speech_ratio]
         /\ AudioPublishes[1].body.riskScore =
               ((aLast.speech_ratio * 6 + 50) \div 100) * 10
         /\ AudioPublishes[1].body.snapshotPath = "null"

\* C27 (as claimed): for every audio message AudioConsumer publishes
\* nothing when the VAD result has speech_detected false (undecodable audio
\* included) and otherwise exactly one SUSPICIOUS_AUDIO message with
\* severity HIGH if ratio > 0.70, MEDIUM if 0.50 < ratio <= 0.70, LOW
\* otherwise, confidence = ratio, risk_score = ratio * 0.6 rounded to 3
\* decimals and snapshotPath null; in both cases the message is acked.
C27_AudioPublishesBySpeechAndAcks ==
    aLast.kind = "object" =>
        /\ AudioPublishesBySpeech
        /\ aLast.outcome = "return"
        /\ aLast.settle.ackCall
        /\ aLast.settle.broker = "acked"

\* the part of C27 that does not depend on the acknowledgement: what is
\* published, and basic_ack being called
AudioPublishesBySpeechAckCalled ==
    aLast.kind = "object" =>
        /\ AudioPublishesBySpeech
        /\ aLast.outcome = "return"
        /\ aLast.settle.ackCall
        /\ aLast.settle.broker \in {"acked", "same"}

(* ====================== claims: behavior consumer ===================== *)

\* the window of the session of the last handled event, the event included
LastWindow == events[bLast.session].window

\* the timestamp of the last handled event: the newest entry of the window
IncomingTs == LastWindow[Len(LastWindow)].ts

\* the features of the entries at the positions K of the last window, each
\* recognized label in its own counter, the rate being the entries per 5 min
FeaturesOver(K) ==
    LET n(label) == Cardinality({k \in K : LastWindow[k].et = label})
    IN  [tab_switches       |-> n("TAB_SWITCH"),
         copy_paste_count   |-> n("COPY_PASTE"),
         context_menu_count |-> n("CONTEXT_MENU"),
         fullscreen_exits   |-> n("FULLSCREEN_EXIT"),
         focus_loss_count   |-> n("FOCUS_LOSS"),
         event_rate_per_min |-> (Cardinality(K) * SCALE) \div 5]

\* C28 (as claimed): the features handed to score_behaviour count exactly
\* the entries of the session's window whose timestamp t satisfies
\* incoming - 300 s <= t <= incoming, also when events arrive with
\* out-of-order timestamps; each recognized label is counted in its own
\* counter, unknown labels only in the rate, and event_rate_per_min is the
\* number of counted entries / 5.
C28_FeaturesCountLast300SecondsUpToIncoming ==
    bLast.outcome = "return" =>
        bLast.features =
            FeaturesOver({k \in DOMAIN LastWindow :
                            /\ IncomingTs - WINDOW_SECS * 1000 <= LastWindow[k].ts
                            /\ LastWindow[k].ts <= IncomingTs})

\* the part of C28 that holds: the counted entries are those not older than
\* incoming - 300 s, newer ones than the incoming event included
FeaturesCountFromCutoffOn ==
    bLast.outcome = "return" =>
        bLast.features =
            FeaturesOver({k \in DOMAIN LastWindow :
                            IncomingTs - WINDOW_SECS * 1000 <= LastWindow[k].ts})

\* an event stamped earlier than entries already in its session's window
LateEventHandled ==
    /\ bLast.outcome = "return"
    /\ \E k \in DOMAIN LastWindow : LastWindow[k].ts > IncomingTs

\* what process_message publishes for the RiskResult risk of session sid
\* (behavior_consumer.py:80-103)
BehaviorPublished(sid, risk) ==
    IF risk.risk_score < 3000 /\ risk.violations = << >> THEN << >>
    ELSE [k \in 1..Len(risk.violations) |->
            PublishBody(sid, risk.violations[k], "null", risk.risk_score)]

\* the last event was handled as an event whose row was persisted is
\* handled: it is in the window, the features are those of the updated
\* window, and the score and the published messages are those of the
\* features for some answer of the classifier
HandledAsIfPersisted ==
    /\ bLast.outcome = "return"
    /\ events[bLast.session].present
    /\ Len(LastWindow) >= 1
    /\ bLast.features = ComputeFeatures(LastWindow, IncomingTs)
    /\ \E clf \in ClassifierAnswers :
          LET risk == ScoreBehaviour(bLast.features, models, clf)
          IN  /\ bLast.risk_score = risk.risk_score
              /\ bLast.published = BehaviorPublished(bLast.session, risk)

\* an event was handled and _persist_event failed
PersistFailed == bLast.kind = "event" /\ ~bLast.persisted

\* C29 (as claimed): a failure while persisting the raw behavior event never
\* fails the message: the window update, scoring and publishing happen
\* exactly as after a successful persist, and the message is acked.
C29_PersistFailureStillHandlesAndAcks ==
    PersistFailed =>
        /\ HandledAsIfPersisted
        /\ bLast.settle.ackCall
        /\ bLast.settle.broker = "acked"

\* the part of C29 that does not depend on the acknowledgement
PersistFailureStillHandles ==
    PersistFailed =>
        /\ HandledAsIfPersisted
        /\ bLast.settle.ackCall
        /\ bLast.settle.broker \in {"acked", "same"}

\* a persist failure on an event that is then published
PersistFailedAndPublished == PersistFailed /\ bLast.published # << >>

\* the last event was published as process_message publishes a RiskResult:
\* nothing when its risk_score is below 0.30 and it has no violation, else
\* one message per violation, each with snapshotPath null
PublishedPerViolation ==
    /\ \E clf \in ClassifierAnswers :
          LET risk == ScoreBehaviour(bLast.features, models, clf)
          IN  /\ bLast.risk_score = risk.risk_score
              /\ bLast.published = BehaviorPublished(bLast.session, risk)
              /\ Len(bLast.published) = Len(risk.violations)
              /\ (risk.risk_score < 3000 /\ risk.violations = << >>) =>
                    bLast.published = << >>
    /\ \A k \in DOMAIN bLast.published :
          /\ bLast.published[k].snapshotPath = "null"
          /\ bLast.published[k].eventType = "SUSPICIOUS_BEHAVIOR"
          /\ bLast.published[k].sessionId = bLast.session
          /\ bLast.published[k].riskScore = bLast.risk_score

\* C30 (as claimed): BehaviorConsumer publishes nothing when score_behaviour
\* returns risk_score < 0.30 and an empty violation list, and otherwise
\* exactly one message per returned violation with snapshotPath null;
\* consequently a message is published for an event if and only if the
\* session's windowed risk is at least 0.30.
C30_PublishedIffWindowedRiskAtLeast030 ==
    bLast.outcome = "return" =>
        /\ PublishedPerViolation
        /\ (bLast.published # << >>) = (bLast.risk_score >= 3000)

\* the part of C30 that holds: one message per violation, and a published
\* message only for a windowed risk of at least 0.30
PublishedOnlyIfWindowedRiskAtLeast030 ==
    bLast.outcome = "return" =>
        /\ PublishedPerViolation
        /\ Len(bLast.published) <= 1
        /\ (bLast.published # << >>) => (bLast.risk_score >= 3000)

\* an event of a window whose risk is 0.3 was handled and nothing published
Risk030NotPublished ==
    /\ bLast.outcome = "return"
    /\ bLast.risk_score = 3000
    /\ bLast.published = << >>

(* ========================== claims: startup =========================== *)

\* load_all_models has returned: _models holds what it loaded
LoadReturned == boot.pc \in {"start", "serving"}

\* the load of the artifact failed
LoadFailed(artifact) ==
    boot.tried[artifact] \in {"raises", "save_raises", "missing", "ImportError",
                              "other_error"}

\* every flag that is true has its artifact, and no failed load set a flag
FlagsImplyArtifacts ==
    LET r == boot.registry.val
    IN  /\ r.yolo_loaded => r.yolo # "null"
        /\ r.xgboost_loaded => r.xgboost # "null"
        /\ r.face_recognition_loaded => r.face_encoder # "null"
        /\ LoadFailed("yolo") => ~r.yolo_loaded
        /\ LoadFailed("xgboost") => ~r.xgboost_loaded
        /\ LoadFailed("face_recognition") => ~r.face_recognition_loaded
        /\ LoadFailed("mediapipe") => ~r.mediapipe_available

\* C31 (as claimed): after load_all_models returns, for each artifact whose
\* load failed the readiness flag is false and the artifact is null, and a
\* true flag implies a non-null artifact; a failure in loading one artifact
\* never prevents the attempts to load the others nor aborts startup.
C31_FailedLoadLeavesNullAndStartupGoesOn ==
    /\ LoadReturned =>
          /\ FlagsImplyArtifacts
          /\ LoadFailed("yolo") => boot.registry.val.yolo = "null"
          /\ LoadFailed("xgboost") => boot.registry.val.xgboost = "null"
          /\ LoadFailed("face_recognition") => boot.registry.val.face_encoder = "null"
    /\ boot.pc # "aborted"
    /\ boot.pc \notin {"yolo", "xgboost", "face_recognition", "mediapipe"} =>
          \A a \in DOMAIN boot.tried : boot.tried[a] # "no"

\* the part of C31 that holds: the flags after the load, and a failed load
\* of the detector or of the classifier never stopping the later attempts
FlagsImplyArtifactsAfterLoad ==
    /\ LoadReturned =>
          /\ FlagsImplyArtifacts
          /\ \A a \in DOMAIN boot.tried : boot.tried[a] # "no"
    /\ boot.pc = "aborted" =>
          \/ boot.tried.face_recognition = "other_error"
          \/ boot.tried.mediapipe = "other_error"

\* the detector was fetched but could not be saved: kept, and flagged not ready
YoloKeptWithoutFlag ==
    /\ LoadReturned
    /\ boot.registry.val.yolo = "yolo"
    /\ ~boot.registry.val.yolo_loaded

\* C32: no consumer thread is started before load_models has completed, and
\* after the first consumer thread has started the model registry is never
\* written again: what get_models returns is the registry load_models left,
\* unchanged for the rest of the process.
C32_RegistryFrozenBeforeConsumersStart ==
    /\ [](boot.started > 0 =>
            /\ boot.registry.set
            /\ boot.registry.val = boot.m
            /\ \A a \in DOMAIN boot.tried : boot.tried[a] # "no")
    /\ [][boot.started > 0 =>
            /\ boot'.registry = boot.registry
            /\ boot'.got # boot.got => boot'.got = boot.registry.val]_vars

\* all three threads run and get_models has handed out a registry in which
\* the detector is loaded
C32_Witness ==
    /\ boot.started = Len(ConsumerThreads)
    /\ boot.pc = "serving"
    /\ boot.got = boot.registry.val
    /\ boot.got.yolo_loaded

(* ===================== claims: vision capabilities ==================== *)

\* neither mediapipe nor the detector is available to the analyzers
NoVisionCapability ==
    LET reg == boot.registry.val
    IN  ~reg.mediapipe_available /\ (~reg.yolo_loaded \/ reg.yolo = "null")

\* the last frame scored zero and led to no violation, upload or publish
NothingReported ==
    /\ fLast.risk_score = 0
    /\ fLast.severity = "NONE"
    /\ fLast.violations = << >>
    /\ fLast.snapshot_path = "null"
    /\ fLast.effects = << >>
    /\ fLast.outcome = "return"

\* C33 (as claimed): when the vision capabilities are unavailable (no
\* mediapipe, detector not loaded) each analyzer returns its conservative
\* default, so every decodable frame yields risk_score 0, no violation, no
\* upload and no publish, and the message is acked.
C33_NoVisionNothingReportedAndAcked ==
    NoVisionCapability /\ fLast.decoded =>
        /\ NothingReported
        /\ fLast.settle.ackCall
        /\ fLast.settle.broker = "acked"

\* the part of C33 that does not depend on the acknowledgement: nothing is
\* reported, and basic_ack is called
NoVisionNothingReportedAckCalled ==
    NoVisionCapability /\ fLast.decoded =>
        /\ NothingReported
        /\ fLast.settle.ackCall
        /\ fLast.settle.broker \in {"acked", "same"}

\* a decodable frame handled without vision capabilities on a closed channel
NoVisionFrameNotAcked ==
    /\ NoVisionCapability
    /\ fLast.decoded
    /\ fLast.settle.broker = "same"

(* ===================== claims: the window mutex ======================= *)

\* thread t is between the lookup of its session's deque and the end of the
\* feature computation
InSection(t) == callers[t].pc \in {"lookup", "append", "features", "release"}

\* C34: every access to the per-session window map (the lookup-or-insert of
\* the session's deque, the append, the read for the feature computation)
\* happens while the thread holds the consumer's mutex, in one critical
\* section per event: between a thread's lookup and the end of its feature
\* computation no other thread modifies or reads the map, and the features it
\* computes are those of the window ending with its own event.
C34_WindowAccessUnderMutex ==
    /\ [](\A t \in Callers :
            /\ InSection(t) => lock = t
            /\ callers[t].pc = "release" =>
                  LET w == events[callers[t].session].window
                  IN  /\ w[Len(w)] = [et |-> callers[t].et, ts |-> callers[t].now]
                      /\ callers[t].features = ComputeFeatures(w, callers[t].now))
    /\ [][/\ events' # events => \E t \in Callers :
                 lock = t /\ InSection(t) /\ callers'[t] # callers[t]
          /\ lock' # lock =>
                 \/ lock = "free" /\ callers[lock'].pc = "acquire"
                                  /\ callers'[lock'].pc = "lookup"
                 \/ lock' = "free" /\ callers[lock].pc = "release"
                                   /\ callers'[lock].pc = "idle"]_vars

\* one thread has computed its features inside the section while the other
\* waits for the lock with an event of the same session
C34_Witness ==
    /\ callers["t1"].pc = "release"
    /\ callers["t2"].pc = "acquire"
    /\ callers["t1"].session = callers["t2"].session
    /\ callers["t1"].et # callers["t2"].et
    /\ Len(events[callers["t1"].session].window) >= 2

(* ================= claims: the consumers side by side ================= *)

\* what consumer d owns: its thread with its connection, and its queue
FleetView(d) == [thread |-> fleet.threads[d], queue |-> fleet.queues[QueueName(d)]]

\* consumer d is not stuck in its own handler and is not waiting on an
\* empty queue
HasWork(d) ==
    /\ fleet.threads[d].pc # "blocked"
    /\ fleet.threads[d].pc = "consuming" => fleet.queues[QueueName(d)].ready > 0

\* C35: the three consumers share no lock, connection, channel or queue: a
\* handler that blocks forever, raises, or drives its consumer into the
\* reconnect loop never prevents another consumer from receiving, handling
\* and settling its own messages (that one can always take its next step),
\* and no step of one consumer changes another consumer's state.
C35_ConsumersIndependent ==
    /\ [](\A d \in Consumers : HasWork(d) => ENABLED FleetStep(d))
    /\ [][\A c \in Consumers : \A d \in Consumers \ {c} :
             fleet'.threads[c] # fleet.threads[c] => FleetView(d)' = FleetView(d)]_vars

\* the frame handler blocks forever, the audio consumer is in its reconnect
\* loop after a handler lost the connection, and the behavior consumer has
\* settled every message of its queue
C35_Witness ==
    /\ fleet.threads["frame"].pc = "blocked"
    /\ fleet.threads["audio"].pc = "sleep"
    /\ fleet.threads["audio"].conns > 0
    /\ fleet.threads["behavior"].settled = MaxFleetMsgs
    /\ fleet.queues["behavior.events"] = [ready |-> 0, unacked |-> 0]

(* ======================= claims: window eviction ====================== *)

\* the entries a message handled at the current clock can append
IncomingEntries == [et : EventLabels, ts : {clock, clock - Skew, clock + Skew}]

\* C36: an event appended to a session window that already holds 50 entries
\* evicts exactly the oldest entry, the remaining 49 keep their order and the
\* new entry is last; a window below 50 entries only grows by the new entry:
\* entries older than 300 s are never removed by staleness, only by overflow.
C36_OverflowEvictsOldestOnly ==
    [][\A sid \in Sessions :
          events'[sid] # events[sid] =>
             LET old == History(events, sid)
                 new == events'[sid].window
             IN  /\ events'[sid].present
                 /\ \E e \in IncomingEntries :
                       new = IF Len(old) = WINDOW_SIZE
                             THEN SubSeq(old, 2, WINDOW_SIZE) \o <<e>>
                             ELSE old \o <<e>>]_vars

\* the 51st event of session s1 has been handled: the first one is gone, the
\* second one, older than 300 s, is still the head of the full window
C36_Witness ==
    /\ varied = 0
    /\ clock = ClockStart + (WINDOW_SIZE + 1) * ClockStep
    /\ bLast.outcome = "return"
    /\ LET w == events["s1"].window
       IN  /\ Len(w) = WINDOW_SIZE
           /\ w[1].ts = ClockStart + ClockStep
           /\ w[1].ts < w[WINDOW_SIZE].ts - WINDOW_SECS * 1000

\* C37: handling an event of session A changes the window of A and of no
\* other session, and the entry of a session, once created, is never removed:
\* the set of tracked sessions only grows.
C37_OnlyOwnWindowChangesTrackedOnlyGrows ==
    [][/\ \A sid \in Sessions :
             events'[sid] # events[sid] =>
                /\ bLast'.outcome = "return"
                /\ bLast'.session = sid
       /\ Tracked \subseteq Tracked'
       /\ bLast'.outcome = "return" => bLast'.session \in Tracked']_vars

\* both sessions are tracked and the last event, of session s1, was handled
\* while the window of s2 held an entry
C37_Witness ==
    /\ Tracked = Sessions
    /\ bLast.outcome = "return"
    /\ bLast.session = "s1"
    /\ Len(events["s2"].window) = 1
    /\ Len(events["s1"].window) > 1

(* ================== claims: severities on the wire ==================== *)

\* C38: every message published by the service has a severity in LOW,
\* MEDIUM, HIGH, CRITICAL and never NONE: the frame consumer publishes MEDIUM
\* or HIGH, the audio consumer LOW, MEDIUM or HIGH, and the behavior consumer
\* publishes only with a risk of at least 0.30, whose tier is at least LOW.
C38_PublishedSeverityNeverNone ==
    /\ \A k \in DOMAIN FramePublishes :
          FramePublishes[k].body.severity \in {"MEDIUM", "HIGH"}
    /\ \A k \in DOMAIN AudioPublishes :
          AudioPublishes[k].body.severity \in {"LOW", "MEDIUM", "HIGH"}
    /\ \A k \in DOMAIN bLast.published :
          /\ bLast.published[k].severity \in {"LOW", "MEDIUM", "HIGH", "CRITICAL"}
          /\ bLast.risk_score >= (30 * SCALE) \div 100
          /\ bLast.published[k].riskScore >= (30 * SCALE) \div 100

\* the behavior consumer has published a violation at the lowest tier
C38_Witness ==
    /\ consumer = "behavior"
    /\ Len(bLast.published) = 1
    /\ bLast.published[1].severity = "LOW"
    /\ bLast.published[1].eventType = "SUSPICIOUS_BEHAVIOR"

\* the audio consumer has published a LOW message and the frame consumer a
\* HIGH one, each in a run of its own
AudioLowPublished ==
    /\ consumer = "audio"
    /\ AudioPublishes # << >>
    /\ AudioPublishes[1].body.severity = "LOW"

FrameHighPublished ==
    /\ consumer = "frame"
    /\ FramePublishes # << >>
    /\ FramePublishes[1].body.severity = "HIGH"

(* ================ claims: the ceiling of the frame score ============== *)

OpenPublisherConns(t) ==
    {c \in DOMAIN pconns : pconns[c].opener = t /\ pconns[c].open}

\* C40 (as claimed): each thread holds at most one open outbound publisher
\* connection at any time, after any sequence of successful and failed
\* publishes: when an attempt fails and the thread-local handle is dropped,
\* the previous connection is closed before _get_channel opens a replacement,
\* also when the failure came from the exchange declaration or from the
\* channel while the connection itself was still open.
C40_AtMostOneOpenPublisherConnectionPerThread ==
    \A t \in PubThreads : Cardinality(OpenPublisherConns(t)) <= 1

\* what holds instead: a thread opens a connection only while its handle is
\* None or names a closed connection
ReplacementOnlyForDroppedOrClosedHandle ==
    [][\A t \in PubThreads :
          ppc[t] = "open" /\ ppc'[t] = "channel" =>
             \/ local[LocalKey(t)].connection = None
             \/ ~pconns[local[LocalKey(t)].connection].open]_vars

\* a thread whose channel was closed by the broker has dropped the handle of
\* a connection that is still open and has opened a second one
DroppedConnectionStillOpen ==
    \E t \in PubThreads :
       /\ Cardinality(OpenPublisherConns(t)) = 2
       /\ local[LocalKey(t)].connection # None
       /\ \E c \in OpenPublisherConns(t) :
             c # local[LocalKey(t)].connection /\ pconns[c].chan = "closed"

====
